---- MODULE Spec2Model ----
(***************************************************************************)
(* Verification model of the content studio's client-side core:           *)
(*   - the Touch-Up Canvas   (src/components/ComicEditor.tsx)             *)
(*   - the post list          (src/App.tsx, src/components/PostCard.tsx)  *)
(*   - the Caption Compositor (src/utils/fileUtils.ts)                    *)
(*   - the retry wrapper      (src/services/geminiService.ts)             *)
(* The canvas is modelled as one row of cells; a cell is CellPx pixels.   *)
(***************************************************************************)
EXTENDS Integers, Sequences, FiniteSets, TLC

(* ------------------------------ bounds --------------------------------- *)
\* width, in cells, of the decoded panel image
NativeCells == 3
\* window.innerWidth * 0.8, in cells
ViewportCells == 2
\* number of times the Save button is pressed in one session
MaxSaves == 2
\* posts returned by one generation request
MaxPosts == 2
\* caption options of one post
MaxTexts == 2
\* generation requests
MaxGenerations == 2
\* caption part edits
MaxPartEdits == 1
\* download requests
MaxDownloads == 2
\* pixels per cell of the model
CellPx == 10

\* cells of a canvas element that was never sized
DefaultCells == 1
\* characters of a caption part handed to the compositor
MaxChars == 5
\* calls of mergeTextAndImage
MaxCalls == 3
\* largest maxRetries handed to withRetry
MaxAttempts == 3
\* calls of withRetry
MaxRetryCalls == 2
\* video generations requested in one visit of the video creator
MaxVideos == 3
\* status polls of one video generation that fail
MaxPollFailures == 2
\* files chosen in the standalone image editor
MaxFiles == 3
\* edits requested in the standalone image editor
MaxEdits == 2
\* comic scripts generated in one visit of the comic creator
MaxScripts == 2
\* scenes of a comic script
MaxScenes == 2
\* largest side, in pixels, of the panel image opened in the editor
MaxImageSide == 4
\* largest window.innerWidth and window.innerHeight, in pixels
MaxWindowSide == 4

(* ------------------------- program constants --------------------------- *)
Tools == {"brush", "eraser"}
BrushColors == {"#000000", "#ff0000"}
BrushSizes == {10, 30}
CLEAR == "clear"
BG == "bg"

VARIABLES
    \* ---- Touch-Up Canvas (ComicEditor) ----
    decodable,      \* whether imageDataUrl decodes (property of the input)
    imgState,       \* the effect's Image: "loading" | "loaded" | "failed"
    background,     \* decoded pixels of imageDataUrl
    canvasW,        \* canvas.width, in cells
    buffer,         \* the drawing canvas' bitmap: cell -> CLEAR or a colour
    gco,            \* context.globalCompositeOperation
    isDrawing, tool, brushSize, brushColor, lastPos,
    pendingSaves,   \* Images created by handleSave whose onload has not run
    saveCount,      \* number of handleSave invocations
    delivered,      \* arguments of the onSave calls, in order
    closed,         \* onClose has been called
    mounted,        \* the host still renders the editor
    gesture         \* the pointer gesture in progress: NULL, or its last
                    \* point and the settings that held at pointer-down

editorVars == <<decodable, imgState, background, canvasW, buffer, gco,
                isDrawing, tool, brushSize, brushColor, lastPos,
                pendingSaves, saveCount, delivered, closed, mounted, gesture>>

VARIABLES
    \* ---- post list (App, PostCard) ----
    posts,          \* App's posts state: NULL or a sequence of Post
    isLoading,      \* App's isLoading
    error,          \* App's error: NULL or a message
    genJob,         \* the generateInitialPosts call in flight, or NULL
    editJobs,       \* ids of the posts whose editImage call is in flight
    composeJobs,    \* mergeTextAndImage calls whose Image is still decoding
    lastDownload,   \* argument of the last downloadImage call, or NULL
    dlStarted, dlDone, dlFailed,   \* handleDownload calls: begun, downloaded, alerted
    genCount,       \* number of generation requests made
    partEdits       \* number of caption part edits made

postVars == <<posts, isLoading, error, genJob, editJobs, composeJobs,
              lastDownload, dlStarted, dlDone, dlFailed, genCount, partEdits>>

VARIABLES
    \* ---- Caption Compositor (mergeTextAndImage) ----
    composePool,    \* the argument triples callers hold (fixed per behaviour)
    composeCalls,   \* calls whose Image is still decoding
    composeLog,     \* settled calls, in the order they settled
    callCount       \* number of calls made

composeVars == <<composePool, composeCalls, composeLog, callCount>>

VARIABLES
    \* ---- withRetry (geminiService) ----
    retryPc,        \* "idle" | "awaitCall" | "sleeping" | "returned" | "thrown"
    maxRetries,     \* argument of the call in progress
    retryI,         \* the loop counter i
    retryDelay,     \* the local delay, in milliseconds
    retryAttempts,  \* how the attempts of the call settled, in order
    retryInvoked,   \* number of times apiCall was invoked by the call
    retryWaits,     \* the timeouts the call has waited for, in order
    retryResult,    \* NULL, or how the call settled
    retryCalls      \* number of withRetry calls made

retryVars == <<retryPc, maxRetries, retryI, retryDelay, retryAttempts,
               retryInvoked, retryWaits, retryResult, retryCalls>>

VARIABLES
    \* ---- display size of the Touch-Up Canvas (ComicEditor effect) ----
    imageSize,      \* image.width and image.height of the decoded panel
    windowSize,     \* window.innerWidth and window.innerHeight
    displaySize,    \* NULL, or the width and height image.onload computed
    canvasSize      \* NULL, or canvas.width and canvas.height

sizeVars == <<imageSize, windowSize, displaySize, canvasSize>>

VARIABLES
    \* ---- comic creator (ComicCreator) ----
    step,           \* "idea" | "script" | "panels"
    script,         \* NULL, or the script: its number and its scenes
    panels,         \* the panels state
    comicLoading,   \* ComicCreator's isLoading
    comicError,     \* ComicCreator's error
    scriptJob,      \* whether a generateComicScript call is in flight
    panelRuns,      \* the handleGeneratePanels calls that have not returned
    scriptCount     \* number of scripts requested

comicVars == <<step, script, panels, comicLoading, comicError, scriptJob, panelRuns, scriptCount>>

VARIABLES
    \* ---- standalone image editor (ImageEditor) ----
    originalImage,  \* NULL, or the file loaded as the original
    editedImage,    \* NULL, or the edit result: the file it was made from
    editorLoading,  \* ImageEditor's isLoading
    editorError,    \* ImageEditor's error
    fileReads,      \* files whose fileToBase64 call is in flight
    editCall,       \* NULL, or the original the editImage call in flight got
    filesPicked,    \* number of files chosen
    editsRequested  \* number of edits requested

imageEditorVars == <<originalImage, editedImage, editorLoading, editorError, fileReads, editCall, filesPicked, editsRequested>>

VARIABLES
    \* ---- video creator (VideoCreator, generateVideo) ----
    apiKey,             \* whether process.env.API_KEY is set
    videoPc,            \* position of generateVideo: "idle", "start", "wait",
                        \* "poll", "finish", "fetch"
    operation,          \* NULL, or generateVideo's local variable operation
    remote,             \* the operation at the service: "none", "running",
                        \* "link" (done with a video), "nolink" (done without)
    pollFailures,       \* failed status polls of the generation
    videoLoading,       \* VideoCreator's isLoading
    videoError,         \* VideoCreator's error
    generatedVideoUrl,  \* NULL, or the generation whose video is shown
    videoCalls          \* number of generations requested

videoVars == <<apiKey, videoPc, operation, remote, pollFailures, videoLoading, videoError, generatedVideoUrl, videoCalls>>

vars == <<editorVars, postVars, composeVars, retryVars, sizeVars, comicVars, imageEditorVars, videoVars>>

\* the variables the Touch-Up Canvas does not own
notEditorVars == <<postVars, composeVars, retryVars, sizeVars, comicVars, imageEditorVars, videoVars>>
\* the variables the post list does not own
notPostVars == <<editorVars, composeVars, retryVars, sizeVars, comicVars, imageEditorVars, videoVars>>
\* the variables the Caption Compositor does not own
notComposeVars == <<editorVars, postVars, retryVars, sizeVars, comicVars, imageEditorVars, videoVars>>
\* the variables withRetry does not own
notRetryVars == <<editorVars, postVars, composeVars, sizeVars, comicVars, imageEditorVars, videoVars>>
\* the variables the video creator does not own
notVideoVars == <<editorVars, postVars, composeVars, retryVars, sizeVars, comicVars, imageEditorVars>>
\* the variables the standalone image editor does not own
notImageEditorVars == <<editorVars, postVars, composeVars, retryVars, sizeVars, comicVars, videoVars>>
\* the variables the comic creator does not own
notComicVars == <<editorVars, postVars, composeVars, retryVars, sizeVars, imageEditorVars, videoVars>>
\* the variables the display size computation does not own
notSizeVars == <<editorVars, postVars, composeVars, retryVars, comicVars, imageEditorVars, videoVars>>

\* null / undefined, and a present value, of an optional
NULL == <<>>
Some(x) == <<x>>
\* no error message
NoError == "null"

(* ------------------------------ helpers -------------------------------- *)
Min(a, b) == IF a < b THEN a ELSE b
Max(a, b) == IF a > b THEN a ELSE b

Blank(w) == [c \in 0..(w - 1) |-> CLEAR]

IsTransparent(buf) == \A c \in DOMAIN buf : buf[c] = CLEAR

\* cells covered by a round-capped line from a to b of the given width
Covered(a, b, size, w) ==
    LET r == size \div (2 * CellPx)
    IN  {c \in 0..(w - 1) : Min(a, b) - r <= c /\ c <= Max(a, b) + r}

Stroke_sourceOver(buf, cells, op, colour) ==
    [c \in DOMAIN buf |-> IF c \in cells THEN colour ELSE buf[c]]

\* context.stroke() under the current composite operation
Stroke(buf, cells, op, colour) ==
    [c \in DOMAIN buf |->
        IF c \in cells
        THEN (IF op = "destination-out" THEN CLEAR ELSE colour)
        ELSE buf[c]]

\* drawImage(src, 0, 0, w, h): the source scaled to w cells
Resample(src, w) ==
    LET n == Cardinality(DOMAIN src)
    IN  [c \in 0..(w - 1) |-> src[(c * n) \div w]]

\* drawImage of a layer over what is already on the surface (source-over)
Over(top, bottom) ==
    [c \in DOMAIN bottom |-> IF top[c] = CLEAR THEN bottom[c] ELSE top[c]]

\* the two drawImage calls of handleSave's image.onload
Flatten(bg, buf, w) == Over(Resample(buf, w), Resample(bg, w))

\* bookkeeping of the model: remember, for every save whose decode is still
\* running, that what the drawing canvas contributes to its output changed
\* after handleSave returned
Touch(pending, old, new) ==
    [i \in 1..Len(pending) |->
        [pending[i] EXCEPT !.touched =
            \/ pending[i].touched
            \/ Resample(new, pending[i].width) # Resample(old, pending[i].width)]]

(* ------------------------- idle sub-systems ---------------------------- *)
IdlePosts ==
    /\ posts = NULL
    /\ isLoading = FALSE
    /\ error = NoError
    /\ genJob = NULL
    /\ editJobs = {}
    /\ composeJobs = {}
    /\ lastDownload = NULL
    /\ dlStarted = 0
    /\ dlDone = 0
    /\ dlFailed = 0
    /\ genCount = 0
    /\ partEdits = 0

IdleRetry ==
    /\ retryPc = "idle"
    /\ maxRetries = 0
    /\ retryI = 0
    /\ retryDelay = 0
    /\ retryAttempts = <<>>
    /\ retryInvoked = 0
    /\ retryWaits = <<>>
    /\ retryResult = NULL
    /\ retryCalls = 0

IdleSize ==
    /\ imageSize = [width |-> 1, height |-> 1]
    /\ windowSize = [width |-> 1, height |-> 1]
    /\ displaySize = NULL
    /\ canvasSize = NULL

IdleComic ==
    /\ step = "idea"
    /\ script = NULL
    /\ panels = <<>>
    /\ comicLoading = FALSE
    /\ comicError = NoError
    /\ scriptJob = FALSE
    /\ panelRuns = {}
    /\ scriptCount = 0

IdleImageEditor ==
    /\ originalImage = NULL
    /\ editedImage = NULL
    /\ editorLoading = FALSE
    /\ editorError = NoError
    /\ fileReads = {}
    /\ editCall = NULL
    /\ filesPicked = 0
    /\ editsRequested = 0

IdleVideo ==
    /\ apiKey = TRUE
    /\ videoPc = "idle"
    /\ operation = NULL
    /\ remote = "none"
    /\ pollFailures = 0
    /\ videoLoading = FALSE
    /\ videoError = NoError
    /\ generatedVideoUrl = NULL
    /\ videoCalls = 0

IdleCompose ==
    /\ composePool = {}
    /\ composeCalls = {}
    /\ composeLog = <<>>
    /\ callCount = 0

IdleEditor ==
    /\ decodable = TRUE
    /\ imgState = "loading"
    /\ background = [c \in 0..(NativeCells - 1) |-> BG]
    /\ canvasW = DefaultCells
    /\ buffer = Blank(DefaultCells)
    /\ gco = "source-over"
    /\ isDrawing = FALSE
    /\ tool = "brush"
    /\ brushSize = 10
    /\ brushColor = "#000000"
    /\ lastPos = 0
    /\ pendingSaves = <<>>
    /\ saveCount = 0
    /\ delivered = <<>>
    /\ closed = FALSE
    /\ mounted = TRUE
    /\ gesture = NULL

(* --------------------------- Touch-Up Canvas --------------------------- *)
InitEditor ==
    /\ IdlePosts
    /\ IdleCompose
    /\ IdleRetry /\ IdleVideo /\ IdleImageEditor /\ IdleComic /\ IdleSize
    /\ decodable \in BOOLEAN
    /\ imgState = "loading"
    /\ background = [c \in 0..(NativeCells - 1) |-> BG]
    /\ canvasW = DefaultCells
    /\ buffer = Blank(DefaultCells)
    /\ gco = "source-over"
    /\ isDrawing = FALSE
    /\ tool = "brush"
    /\ brushSize = 10
    /\ brushColor = "#000000"
    /\ lastPos = 0
    /\ pendingSaves = <<>>
    /\ saveCount = 0
    /\ delivered = <<>>
    /\ closed = FALSE
    /\ mounted = TRUE
    /\ gesture = NULL

imageOnload_keepsDrawing ==
    /\ imgState = "loading"
    /\ decodable
    /\ LET width == IF NativeCells > ViewportCells THEN ViewportCells ELSE NativeCells
       IN  /\ canvasW' = width
           /\ buffer' = Resample(buffer, width)
    /\ pendingSaves' = Touch(pendingSaves, buffer, buffer')
    /\ gco' = "source-over"
    /\ imgState' = "loaded"
    /\ UNCHANGED <<notEditorVars, gesture, decodable, background, isDrawing, tool, brushSize,
                   brushColor, lastPos, saveCount, delivered, closed, mounted>>

\* image.onload of the effect: size the canvas to the display size and clear it
imageOnload ==
    /\ imgState = "loading"
    /\ decodable
    /\ LET width == IF NativeCells > ViewportCells THEN ViewportCells ELSE NativeCells
       IN  /\ canvasW' = width
           /\ buffer' = Blank(width)
    /\ pendingSaves' = Touch(pendingSaves, buffer, buffer')
    /\ gco' = "source-over"
    /\ imgState' = "loaded"
    /\ UNCHANGED <<notEditorVars, gesture, decodable, background, isDrawing, tool, brushSize,
                   brushColor, lastPos, saveCount, delivered, closed, mounted>>

\* the effect's Image fails to decode: no onerror handler is installed
imageOnerror ==
    /\ imgState = "loading"
    /\ ~decodable
    /\ imgState' = "failed"
    /\ UNCHANGED <<notEditorVars, gesture, decodable, background, canvasW, buffer, gco,
                   isDrawing, tool, brushSize, brushColor, lastPos,
                   pendingSaves, saveCount, delivered, closed, mounted>>

startDrawing_keepsLastPos(p) ==
    /\ mounted
    /\ isDrawing' = TRUE
    /\ gesture' = Some([prev |-> p, tool |-> tool, brushSize |-> brushSize,
                        brushColor |-> brushColor])
    /\ UNCHANGED <<notEditorVars, decodable, imgState, background, canvasW, buffer,
                   gco, tool, brushSize, brushColor, pendingSaves, saveCount,
                   delivered, closed, mounted, lastPos>>

startDrawing(p) ==
    /\ mounted
    /\ lastPos' = p
    /\ isDrawing' = TRUE
    /\ gesture' = Some([prev |-> p, tool |-> tool, brushSize |-> brushSize,
                        brushColor |-> brushColor])
    /\ UNCHANGED <<notEditorVars, decodable, imgState, background, canvasW, buffer,
                   gco, tool, brushSize, brushColor, pendingSaves, saveCount,
                   delivered, closed, mounted>>

draw_onBackground(p) ==
    /\ mounted
    /\ isDrawing
    /\ background' = [background EXCEPT ![0] = brushColor]
    /\ lastPos' = p
    /\ UNCHANGED <<notEditorVars, gesture, decodable, imgState, canvasW, buffer, gco,
                   isDrawing, tool, brushSize, brushColor, pendingSaves,
                   saveCount, delivered, closed, mounted>>

draw_whilePointerUp(p) ==
    /\ mounted
    /\ LET op == IF tool = "brush" THEN "source-over" ELSE "destination-out"
       IN  /\ gco' = op
           /\ buffer' = Stroke(buffer, Covered(lastPos, p, brushSize, canvasW),
                               op, brushColor)
           /\ lastPos' = p
           /\ pendingSaves' = Touch(pendingSaves, buffer, buffer')
    /\ gesture' = IF gesture = NULL THEN NULL
                  ELSE Some([gesture[1] EXCEPT !.prev = p])
    /\ UNCHANGED <<notEditorVars, decodable, imgState, background, canvasW,
                   isDrawing, tool, brushSize, brushColor,
                   saveCount, delivered, closed, mounted>>

draw(p) ==
    /\ mounted
    /\ IF ~isDrawing
       THEN UNCHANGED <<buffer, gco, lastPos, pendingSaves>>
       ELSE LET op == IF tool = "brush" THEN "source-over" ELSE "destination-out"
            IN  /\ gco' = op
                /\ buffer' = Stroke(buffer, Covered(lastPos, p, brushSize, canvasW),
                                    op, brushColor)
                /\ lastPos' = p
                /\ pendingSaves' = Touch(pendingSaves, buffer, buffer')
    /\ gesture' = IF gesture = NULL THEN NULL
                  ELSE Some([gesture[1] EXCEPT !.prev = p])
    /\ UNCHANGED <<notEditorVars, decodable, imgState, background, canvasW,
                   isDrawing, tool, brushSize, brushColor,
                   saveCount, delivered, closed, mounted>>

stopDrawing_keepsMode ==
    /\ mounted
    /\ isDrawing' = FALSE
    /\ gesture' = NULL
    /\ UNCHANGED <<notEditorVars, decodable, imgState, background, canvasW, buffer,
                   gco, tool, brushSize, brushColor, lastPos, pendingSaves,
                   saveCount, delivered, closed, mounted>>

\* onMouseUp and onMouseLeave of the canvas are both bound to stopDrawing
stopDrawing ==
    /\ mounted
    /\ IF isDrawing
       THEN /\ gco' = "source-over"
            /\ isDrawing' = FALSE
       ELSE UNCHANGED <<gco, isDrawing>>
    /\ gesture' = NULL
    /\ UNCHANGED <<notEditorVars, decodable, imgState, background, canvasW, buffer,
                   tool, brushSize, brushColor, lastPos, pendingSaves,
                   saveCount, delivered, closed, mounted>>

setTool(t) ==
    /\ mounted
    /\ tool' = t
    /\ UNCHANGED <<notEditorVars, gesture, decodable, imgState, background, canvasW, buffer,
                   gco, isDrawing, brushSize, brushColor, lastPos,
                   pendingSaves, saveCount, delivered, closed, mounted>>

setBrushColor(c) ==
    /\ mounted
    /\ tool # "eraser"
    /\ brushColor' = c
    /\ UNCHANGED <<notEditorVars, gesture, decodable, imgState, background, canvasW, buffer,
                   gco, isDrawing, tool, brushSize, lastPos, pendingSaves,
                   saveCount, delivered, closed, mounted>>

setBrushSize(s) ==
    /\ mounted
    /\ brushSize' = s
    /\ UNCHANGED <<notEditorVars, gesture, decodable, imgState, background, canvasW, buffer,
                   gco, isDrawing, tool, brushColor, lastPos, pendingSaves,
                   saveCount, delivered, closed, mounted>>

\* the host of the editor (not part of the sources): it discards the session
\* when onSave or onClose is called, after which no button or pointer event
\* reaches the component
hostDiscardsSession == mounted' = FALSE

\* the synchronous part of handleSave: size the output surface, start the decode
handleSave ==
    /\ mounted
    /\ saveCount < MaxSaves
    /\ saveCount' = saveCount + 1
    /\ pendingSaves' = Append(pendingSaves,
                              [id |-> saveCount + 1, width |-> canvasW,
                               touched |-> FALSE])
    /\ UNCHANGED <<notEditorVars, gesture, decodable, imgState, background, canvasW, buffer,
                   gco, isDrawing, tool, brushSize, brushColor, lastPos,
                   delivered, closed, mounted>>

\* image.onload of handleSave: flatten and hand the result to onSave;
\* the host then discards the session
saveOnload(k) ==
    /\ k \in 1..Len(pendingSaves)
    /\ decodable
    /\ LET s == pendingSaves[k]
       IN  delivered' = Append(delivered,
                               [id |-> s.id,
                                image |-> Flatten(background, buffer, s.width),
                                touched |-> s.touched,
                                afterClose |-> closed])
    /\ pendingSaves' = [i \in 1..(Len(pendingSaves) - 1) |->
                            IF i < k THEN pendingSaves[i] ELSE pendingSaves[i + 1]]
    /\ hostDiscardsSession
    /\ UNCHANGED <<notEditorVars, gesture, decodable, imgState, background, canvasW, buffer,
                   gco, isDrawing, tool, brushSize, brushColor, lastPos,
                   saveCount, closed>>

\* the Cancelar button: onClose; the host discards the session
cancel ==
    /\ mounted
    /\ closed' = TRUE
    /\ hostDiscardsSession
    /\ UNCHANGED <<notEditorVars, gesture, decodable, imgState, background, canvasW, buffer,
                   gco, isDrawing, tool, brushSize, brushColor, lastPos,
                   pendingSaves, saveCount, delivered>>

NextEditor ==
    \/ imageOnload
    \/ imageOnerror
    \/ \E p \in 0..(canvasW - 1) : startDrawing(p)
    \/ \E p \in 0..(canvasW - 1) : draw(p)
    \/ stopDrawing
    \/ \E t \in Tools : setTool(t)
    \/ \E c \in BrushColors : setBrushColor(c)
    \/ \E s \in BrushSizes : setBrushSize(s)
    \/ handleSave
    \/ \E k \in 1..MaxSaves : saveOnload(k)
    \/ cancel

SpecEditor == InitEditor /\ [][NextEditor]_vars

\* drawing only: the decode of the background, the pointer gestures and the
\* tool, colour and size controls of a session that is neither saved nor closed
NextDrawing ==
    \/ imageOnload
    \/ imageOnerror
    \/ \E p \in 0..(canvasW - 1) : startDrawing(p)
    \/ \E p \in 0..(canvasW - 1) : draw(p)
    \/ stopDrawing
    \/ \E t \in Tools : setTool(t)
    \/ \E c \in BrushColors : setBrushColor(c)
    \/ \E s \in BrushSizes : setBrushSize(s)

SpecDrawing == InitEditor /\ [][NextDrawing]_vars

(* ------------------------------ post list ------------------------------ *)
Mimes == {"image/png", "image/jpeg"}
NoMime == "undefined"
Parts == {"tag", "headline", "cta"}
\* text a user can type into a caption part (texts are <<string, option number>>,
\* option number 0 for text that did not come from the text model)
TypedTexts == {<<"edited", 0>>}

\* image bytes: where they came from and the format they are encoded in (the
\* mime type the service or the file delivered with them)
ImageBytes(src, fmt) == [src |-> src, fmt |-> fmt]

\* App's uploadedImage: { base64, mimeType: file.type }
Uploads ==
    {[base64 |-> ImageBytes("upload", m), mimeType |-> m] : m \in Mimes}

\* responses of the image generation API: PNG bytes, as requested with
\* outputMimeType 'image/png', with or without a mimeType field
ImagenResponses ==
    {[imageBytes |-> ImageBytes("gen", "image/png"), mimeType |-> m] :
        m \in {"image/png", NoMime}}

\* inlineData parts of the image editing API's response
EditResponses ==
    {[data |-> ImageBytes("edit", m), mimeType |-> m] : m \in Mimes}

\* captionOptions of one post as the text model returns them
Captions(n) ==
    [k \in 1..n |-> [tag |-> <<"tag", k>>, headline |-> <<"headline", k>>,
                     cta |-> <<"cta", k>>]]

\* resultJson.posts: up to MaxPosts posts, each with the same number of
\* caption options, up to MaxTexts
PostsData ==
    {[i \in 1..n |-> Captions(t)] : n \in 0..MaxPosts, t \in 0..MaxTexts}

\* number of images of a caption-less carousel (5), within the model's bound
CarouselCount == Min(5, MaxPosts)

generateImage(response) ==
    [image |-> response.imageBytes,
     mimeType |-> IF response.mimeType = NoMime THEN "image/png"
                  ELSE response.mimeType]

editImage(response) == response.data

\* the value generateInitialPosts resolves with
generateInitialPosts(postType, uploadedImage, includeCaption, postsData, images, firstId) ==
    IF ~includeCaption
    THEN IF uploadedImage # NULL
         THEN << [id |-> firstId, texts |-> <<>>, activeTextIndex |-> 0,
                  image |-> uploadedImage[1].base64,
                  imageMimeType |-> uploadedImage[1].mimeType] >>
         ELSE [i \in 1..(IF postType = "carousel" THEN CarouselCount ELSE 1) |->
                  [id |-> firstId + i - 1, texts |-> <<>>, activeTextIndex |-> 0,
                   image |-> generateImage(images[i]).image,
                   imageMimeType |-> generateImage(images[i]).mimeType]]
    ELSE IF uploadedImage # NULL
         THEN [i \in 1..Len(postsData) |->
                  [id |-> firstId + i - 1, texts |-> postsData[i],
                   activeTextIndex |-> 0,
                   image |-> uploadedImage[1].base64,
                   imageMimeType |-> uploadedImage[1].mimeType]]
         ELSE [i \in 1..Len(postsData) |->
                  [id |-> firstId + i - 1, texts |-> postsData[i],
                   activeTextIndex |-> 0,
                   image |-> generateImage(images[i]).image,
                   imageMimeType |-> generateImage(images[i]).mimeType]]

\* the array held by posts when it is not null
PostList == posts[1]
PostIds == IF posts = NULL THEN {} ELSE {PostList[i].id : i \in 1..Len(PostList)}
PostOf(id) == PostList[CHOOSE i \in 1..Len(PostList) : PostList[i].id = id]

activeText_firstOrBlank(post) ==
    IF Len(post.texts) > 0 THEN Some(post.texts[1])
    ELSE Some([tag |-> <<"", 0>>, headline |-> <<"", 0>>, cta |-> <<"", 0>>])

\* PostCard's activeText; an index outside texts reads as undefined
activeText(post) ==
    IF Len(post.texts) > 0
    THEN (IF post.activeTextIndex + 1 \in DOMAIN post.texts
          THEN Some(post.texts[post.activeTextIndex + 1]) ELSE NULL)
    ELSE NULL

handleGeneratePosts_keepsPosts(promptEmpty, uploadedImage, postType, includeCaption) ==
    /\ ~isLoading
    /\ genCount < MaxGenerations
    /\ genCount' = genCount + 1
    /\ IF promptEmpty /\ uploadedImage = NULL
       THEN /\ error' = "empty"
            /\ UNCHANGED <<posts, isLoading, genJob>>
       ELSE /\ isLoading' = TRUE
            /\ error' = NoError
            /\ posts' = posts
            /\ genJob' = Some([postType |-> postType, uploadedImage |-> uploadedImage,
                               includeCaption |-> includeCaption])
    /\ UNCHANGED <<notPostVars, editJobs, composeJobs, lastDownload,
                   dlStarted, dlDone, dlFailed, partEdits>>

\* App.handleGeneratePosts up to the await (the button is disabled while
\* isLoading)
handleGeneratePosts(promptEmpty, uploadedImage, postType, includeCaption) ==
    /\ ~isLoading
    /\ genCount < MaxGenerations
    /\ genCount' = genCount + 1
    /\ IF promptEmpty /\ uploadedImage = NULL
       THEN /\ error' = "empty"
            /\ UNCHANGED <<posts, isLoading, genJob>>
       ELSE /\ isLoading' = TRUE
            /\ error' = NoError
            /\ posts' = NULL
            /\ genJob' = Some([postType |-> postType, uploadedImage |-> uploadedImage,
                               includeCaption |-> includeCaption])
    /\ UNCHANGED <<notPostVars, editJobs, composeJobs, lastDownload,
                   dlStarted, dlDone, dlFailed, partEdits>>

\* crypto.randomUUID: the first of MaxPosts ids no earlier request has used
FreshId == (genCount - 1) * MaxPosts + 1

\* generateInitialPosts resolves: setPosts(generatedPosts), then finally
generateResolve(postsData, images) ==
    /\ genJob # NULL
    /\ LET generatedPosts ==
               generateInitialPosts(genJob[1].postType, genJob[1].uploadedImage,
                                    genJob[1].includeCaption, postsData, images, FreshId)
       IN  posts' = Some(generatedPosts)
    /\ isLoading' = FALSE
    /\ genJob' = NULL
    /\ UNCHANGED <<notPostVars, error, editJobs, composeJobs, lastDownload,
                   dlStarted, dlDone, dlFailed, genCount, partEdits>>

\* generateInitialPosts rejects: setError, then finally
generateReject ==
    /\ genJob # NULL
    /\ error' = "failed"
    /\ isLoading' = FALSE
    /\ genJob' = NULL
    /\ UNCHANGED <<notPostVars, posts, editJobs, composeJobs,
                   lastDownload, dlStarted, dlDone, dlFailed, genCount, partEdits>>

\* PostCard.handleImageEdit / App.handleImageEdit up to the await
handleImageEdit(postId) ==
    /\ postId \in PostIds
    /\ postId \notin editJobs
    /\ editJobs' = editJobs \cup {postId}
    /\ UNCHANGED <<notPostVars, posts, isLoading, error, genJob,
                   composeJobs, lastDownload, dlStarted, dlDone, dlFailed,
                   genCount, partEdits>>

editResolve_byPosition(postId, response) ==
    /\ postId \in editJobs
    /\ LET newImageBase64 == editImage(response)
       IN  posts' = IF posts = NULL THEN NULL
                    ELSE Some([i \in 1..Len(PostList) |->
                                 IF (PostList[i].id - postId) % MaxPosts = 0
                                 THEN [PostList[i] EXCEPT !.image = newImageBase64]
                                 ELSE PostList[i]])
    /\ editJobs' = editJobs \ {postId}
    /\ UNCHANGED <<notPostVars, isLoading, error, genJob, composeJobs,
                   lastDownload, dlStarted, dlDone, dlFailed, genCount, partEdits>>

\* editImageAPI resolves: only the image of the post is replaced
editResolve(postId, response) ==
    /\ postId \in editJobs
    /\ LET newImageBase64 == editImage(response)
       IN  posts' = IF posts = NULL THEN NULL
                    ELSE Some([i \in 1..Len(PostList) |->
                                 IF PostList[i].id = postId
                                 THEN [PostList[i] EXCEPT !.image = newImageBase64]
                                 ELSE PostList[i]])
    /\ editJobs' = editJobs \ {postId}
    /\ UNCHANGED <<notPostVars, isLoading, error, genJob, composeJobs,
                   lastDownload, dlStarted, dlDone, dlFailed, genCount, partEdits>>

\* editImageAPI rejects: alert
editReject(postId) ==
    /\ postId \in editJobs
    /\ editJobs' = editJobs \ {postId}
    /\ UNCHANGED <<notPostVars, posts, isLoading, error, genJob,
                   composeJobs, lastDownload, dlStarted, dlDone, dlFailed,
                   genCount, partEdits>>

NextIndex_noWrap(post) == post.activeTextIndex + 1

\* newIndex of handleCycleCaption
NextIndex(post) == (post.activeTextIndex + 1) % Len(post.texts)

setActiveTextIndex_dropOthers(currentPosts, postId, newIndex) ==
    LET kept == SelectSeq(currentPosts, LAMBDA p : p.id = postId)
    IN  [i \in 1..Len(kept) |-> [kept[i] EXCEPT !.activeTextIndex = newIndex]]

\* the updater handleCaptionChange passes to setPosts, on a non-null list
setActiveTextIndex(currentPosts, postId, newIndex) ==
    [i \in 1..Len(currentPosts) |->
        IF currentPosts[i].id = postId
        THEN [currentPosts[i] EXCEPT !.activeTextIndex = newIndex]
        ELSE currentPosts[i]]

\* App.handleCaptionChange
handleCaptionChange(postId, newIndex) ==
    posts' = IF posts = NULL THEN NULL
             ELSE Some(setActiveTextIndex(PostList, postId, newIndex))

\* the cycle button, rendered when the post has more than one caption option
handleCycleCaption(postId) ==
    /\ postId \in PostIds
    /\ Len(PostOf(postId).texts) > 1
    /\ handleCaptionChange(postId, NextIndex(PostOf(postId)))
    /\ UNCHANGED <<notPostVars, isLoading, error, genJob, editJobs,
                   composeJobs, lastDownload, dlStarted, dlDone, dlFailed,
                   genCount, partEdits>>

\* App.handleCaptionPartChange
handleCaptionPartChange(postId, part, value) ==
    posts' = IF posts = NULL THEN NULL
             ELSE Some([i \in 1..Len(PostList) |->
                          LET p == PostList[i]
                          IN  IF p.id = postId /\ p.activeTextIndex + 1 \in DOMAIN p.texts
                              THEN [p EXCEPT !.texts[p.activeTextIndex + 1][part] = value]
                              ELSE p])

\* PostCard.handleTextUpdate (blur of an editable caption part)
handleTextUpdate(postId, part, value) ==
    /\ postId \in PostIds
    /\ partEdits < MaxPartEdits
    /\ activeText(PostOf(postId)) # NULL
    /\ value # activeText(PostOf(postId))[1][part]
    /\ handleCaptionPartChange(postId, part, value)
    /\ partEdits' = partEdits + 1
    /\ UNCHANGED <<notPostVars, isLoading, error, genJob, editJobs,
                   composeJobs, lastDownload, dlStarted, dlDone, dlFailed,
                   genCount>>

\* layers in the order image.onload of mergeTextAndImage draws them
ComposedLayers == <<"image", "gradient", "cta", "headline", "tag">>

\* what happens to one call of mergeTextAndImage: the 2d context is missing,
\* the data URL fails to decode, or it decodes
ComposeEnvs == {"noContext", "decodeError", "decoded"}

mergeTextAndImage_blankOnError(base64Image, mimeType, text, env) ==
    IF env = "decoded"
    THEN [settled |-> "resolved",
          value |-> Some([base |-> base64Image, mimeType |-> mimeType,
                          text |-> text, layers |-> ComposedLayers])]
    ELSE [settled |-> "resolved",
          value |-> Some([base |-> base64Image, mimeType |-> mimeType,
                          text |-> text, layers |-> <<>>])]

\* how the promise of mergeTextAndImage settles
mergeTextAndImage(base64Image, mimeType, text, env) ==
    IF env = "noContext" THEN [settled |-> "rejected", value |-> NULL]
    ELSE IF env = "decoded"
    THEN [settled |-> "resolved",
          value |-> Some([base |-> base64Image, mimeType |-> mimeType,
                          text |-> text, layers |-> ComposedLayers])]
    ELSE [settled |-> "rejected", value |-> NULL]

\* PostCard.handleDownload up to the await
handleDownload(postId) ==
    /\ postId \in PostIds
    /\ \A j \in composeJobs : j.postId # postId
    /\ dlStarted < MaxDownloads
    /\ dlStarted' = dlStarted + 1
    /\ LET post == PostOf(postId)
       IN  IF activeText(post) = NULL
           THEN /\ lastDownload' = Some([kind |-> "raw",
                                         mimeType |-> post.imageMimeType,
                                         image |-> post.image, layers |-> <<>>])
                /\ dlDone' = dlDone + 1
                /\ UNCHANGED composeJobs
           ELSE /\ composeJobs' = composeJobs \cup
                       {[postId |-> postId, image |-> post.image,
                         mimeType |-> post.imageMimeType,
                         text |-> activeText(post)[1]]}
                /\ UNCHANGED <<lastDownload, dlDone>>
    /\ UNCHANGED <<notPostVars, posts, isLoading, error, genJob,
                   editJobs, dlFailed, genCount, partEdits>>

\* the promise of mergeTextAndImage settles: download the merged image, or alert
composeSettle(job, env) ==
    /\ job \in composeJobs
    /\ composeJobs' = composeJobs \ {job}
    /\ LET r == mergeTextAndImage(job.image, job.mimeType, job.text, env)
       IN  IF r.settled = "resolved"
           THEN /\ lastDownload' = Some([kind |-> "merged",
                                         mimeType |-> "image/png",
                                         image |-> r.value[1].base,
                                         layers |-> r.value[1].layers])
                /\ dlDone' = dlDone + 1
                /\ UNCHANGED dlFailed
           ELSE /\ dlFailed' = dlFailed + 1
                /\ UNCHANGED <<lastDownload, dlDone>>
    /\ UNCHANGED <<notPostVars, posts, isLoading, error, genJob,
                   editJobs, dlStarted, genCount, partEdits>>

InitPosts == IdleEditor /\ IdleCompose /\ IdleRetry /\ IdleVideo /\ IdleImageEditor /\ IdleComic /\ IdleSize /\ IdlePosts

\* the post list: generation, image edits, caption cycling and caption edits
NextPosts ==
    \/ \E promptEmpty \in BOOLEAN, uploadedImage \in {Some(u) : u \in Uploads} \cup {NULL},
          postType \in {"single", "carousel"}, includeCaption \in BOOLEAN :
            handleGeneratePosts(promptEmpty, uploadedImage, postType, includeCaption)
    \/ \E postsData \in PostsData, images \in [1..MaxPosts -> ImagenResponses] :
            generateResolve(postsData, images)
    \/ generateReject
    \/ \E postId \in PostIds : handleImageEdit(postId)
    \/ \E postId \in editJobs, response \in EditResponses : editResolve(postId, response)
    \/ \E postId \in editJobs : editReject(postId)
    \/ \E postId \in PostIds : handleCycleCaption(postId)
    \/ \E postId \in PostIds, part \in Parts, value \in TypedTexts :
            handleTextUpdate(postId, part, value)

SpecPosts == InitPosts /\ [][NextPosts]_vars

\* captions only: generation, caption cycling and caption edits
NextCaptions ==
    \/ \E promptEmpty \in BOOLEAN, uploadedImage \in {Some(u) : u \in Uploads} \cup {NULL},
          postType \in {"single", "carousel"}, includeCaption \in BOOLEAN :
            handleGeneratePosts(promptEmpty, uploadedImage, postType, includeCaption)
    \/ \E postsData \in PostsData, images \in [1..MaxPosts -> ImagenResponses] :
            generateResolve(postsData, images)
    \/ generateReject
    \/ \E postId \in PostIds : handleCycleCaption(postId)
    \/ \E postId \in PostIds, part \in Parts, value \in TypedTexts :
            handleTextUpdate(postId, part, value)

SpecCaptions == InitPosts /\ [][NextCaptions]_vars

\* generation and image edits only
NextEdits ==
    \/ \E promptEmpty \in BOOLEAN, uploadedImage \in {Some(u) : u \in Uploads} \cup {NULL},
          postType \in {"single", "carousel"}, includeCaption \in BOOLEAN :
            handleGeneratePosts(promptEmpty, uploadedImage, postType, includeCaption)
    \/ \E postsData \in PostsData, images \in [1..MaxPosts -> ImagenResponses] :
            generateResolve(postsData, images)
    \/ generateReject
    \/ \E postId \in PostIds : handleImageEdit(postId)
    \/ \E postId \in editJobs, response \in EditResponses : editResolve(postId, response)
    \/ \E postId \in editJobs : editReject(postId)

SpecEdits == InitPosts /\ [][NextEdits]_vars

\* every post list generateInitialPosts can resolve with
GeneratedPosts ==
    {generateInitialPosts(postType, uploadedImage, includeCaption, postsData, images, 1) :
        postType \in {"single", "carousel"},
        uploadedImage \in {Some(u) : u \in Uploads} \cup {NULL},
        includeCaption \in BOOLEAN, postsData \in PostsData,
        images \in [1..MaxPosts -> ImagenResponses]}

\* the post cards of one generated post list, as App renders them
InitDownload ==
    /\ IdleEditor
    /\ IdleCompose
    /\ IdleRetry /\ IdleVideo /\ IdleImageEditor /\ IdleComic /\ IdleSize
    /\ posts \in {Some(p) : p \in GeneratedPosts}
    /\ isLoading = FALSE
    /\ error = NoError
    /\ genJob = NULL
    /\ editJobs = {}
    /\ composeJobs = {}
    /\ lastDownload = NULL
    /\ dlStarted = 0
    /\ dlDone = 0
    /\ dlFailed = 0
    /\ genCount = 1
    /\ partEdits = 0

\* downloading the posts of a generated list: caption cycling and downloads
NextDownload ==
    \/ \E postId \in PostIds : handleCycleCaption(postId)
    \/ \E postId \in PostIds : handleDownload(postId)
    \/ \E job \in composeJobs, env \in ComposeEnvs : composeSettle(job, env)

SpecDownload == InitDownload /\ [][NextDownload]_vars

\* the post card for any value of its post prop: the Post type does not tie
\* activeTextIndex to texts, the callers of PostCard do
PostProps ==
    {[id |-> 1, texts |-> Captions(t), activeTextIndex |-> k,
      image |-> u.base64, imageMimeType |-> u.mimeType] :
        t \in 0..MaxTexts, k \in 0..MaxTexts, u \in Uploads}

InitPostCard ==
    /\ IdleEditor
    /\ IdleCompose
    /\ IdleRetry /\ IdleVideo /\ IdleImageEditor /\ IdleComic /\ IdleSize
    /\ posts \in {Some(<<p>>) : p \in PostProps}
    /\ isLoading = FALSE
    /\ error = NoError
    /\ genJob = NULL
    /\ editJobs = {}
    /\ composeJobs = {}
    /\ lastDownload = NULL
    /\ dlStarted = 0
    /\ dlDone = 0
    /\ dlFailed = 0
    /\ genCount = 1
    /\ partEdits = 0

\* one post card: downloads, caption cycling and caption edits
NextPostCard ==
    \/ \E postId \in PostIds : handleCycleCaption(postId)
    \/ \E postId \in PostIds, part \in Parts, value \in TypedTexts :
            handleTextUpdate(postId, part, value)
    \/ \E postId \in PostIds : handleDownload(postId)
    \/ \E job \in composeJobs, env \in ComposeEnvs : composeSettle(job, env)

SpecPostCard == InitPostCard /\ [][NextPostCard]_vars

(* -------------------------- Caption Compositor ------------------------ *)
\* Strings are sequences of characters; lengths are in hundredths of a pixel.
Chars == {"a", "A", " "}

\* the strings of at most n characters
Strs(n) == UNION {[1..k -> Chars] : k \in 0..n}

\* advance width of a character, in hundredths of the font size
CharEm(c) == CASE c = "a" -> 50 [] c = "A" -> 70 [] c = " " -> 30

RECURSIVE SumEm(_)
SumEm(str) == IF str = <<>> THEN 0 ELSE CharEm(Head(str)) + SumEm(Tail(str))

measureText_padsEmpty(fontSize, str) ==
    IF str = <<>> THEN fontSize * CharEm(" ") ELSE fontSize * SumEm(str)

\* context.measureText(str).width under a font of the given pixel size
measureText(fontSize, str) == fontSize * SumEm(str)

\* String.prototype.split(' ')
RECURSIVE split(_)
split(str) ==
    IF \A i \in 1..Len(str) : str[i] # " " THEN <<str>>
    ELSE LET k == CHOOSE i \in 1..Len(str) :
                      str[i] = " " /\ \A j \in 1..(i - 1) : str[j] # " "
         IN  <<SubSeq(str, 1, k - 1)>> \o split(SubSeq(str, k + 1, Len(str)))

\* String.prototype.trim
RECURSIVE trim(_)
trim(str) ==
    IF str = <<>> THEN str
    ELSE IF Head(str) = " " THEN trim(Tail(str))
    ELSE IF str[Len(str)] = " " THEN trim(SubSeq(str, 1, Len(str) - 1))
    ELSE str

RECURSIVE wrapLoop_dropsWrappedWord(_, _, _, _, _, _)
wrapLoop_dropsWrappedWord(fontSize, words, n, line, lines, maxW) ==
    IF n >= Len(words) THEN Append(lines, trim(line))
    ELSE LET testLine == line \o words[n + 1] \o <<" ">>
         IN  IF measureText(fontSize, testLine) > maxW /\ n > 0
             THEN wrapLoop_dropsWrappedWord(fontSize, words, n + 1, <<>>,
                                            Append(lines, trim(line)), maxW)
             ELSE wrapLoop_dropsWrappedWord(fontSize, words, n + 1, testLine,
                                            lines, maxW)

\* the for loop of wrapText, from word n (0-based) on
RECURSIVE wrapLoop(_, _, _, _, _, _)
wrapLoop(fontSize, words, n, line, lines, maxW) ==
    IF n >= Len(words) THEN Append(lines, trim(line))
    ELSE LET testLine == line \o words[n + 1] \o <<" ">>
         IN  IF measureText(fontSize, testLine) > maxW /\ n > 0
             THEN wrapLoop(fontSize, words, n + 1, words[n + 1] \o <<" ">>,
                           Append(lines, trim(line)), maxW)
             ELSE wrapLoop(fontSize, words, n + 1, testLine, lines, maxW)

wrapText(fontSize, textToWrap, maxW) ==
    wrapLoop(fontSize, split(textToWrap), 0, <<>>, <<>>, maxW)

\* Math.round(a / b) for positive integers
Round(a, b) == (2 * a + b) \div (2 * b)

headlineFontSize_fromLastCall(canvasWidth) ==
    IF composeLog # <<>> /\ composeLog[Len(composeLog)].output # NULL
    THEN Max(32, Round(composeLog[Len(composeLog)].output[1].width, 15))
    ELSE Max(32, Round(canvasWidth, 15))

headlineFontSize(canvasWidth) == Max(32, Round(canvasWidth, 15))
ctaFontSize_fixed(canvasWidth) == 18
ctaFontSize(canvasWidth) == Max(18, Round(canvasWidth, 30))
tagFontSize(canvasWidth) == Max(16, Round(canvasWidth, 35))

Padding_quarter(canvasWidth) == 25 * canvasWidth
Padding_tenth(canvasWidth) == 10 * canvasWidth

\* canvas.width * 0.08 and canvas.width - padding * 2
Padding(canvasWidth) == 8 * canvasWidth
MaxTextWidth(canvasWidth) == 100 * canvasWidth - 2 * Padding(canvasWidth)

\* what image.onload of mergeTextAndImage computes and draws on a canvas of
\* the image's size, in drawing order
DrawOverlay(image, w, h, text) ==
    LET padding == Padding(w)
        maxWidth == MaxTextWidth(w)
        hf == headlineFontSize(w)
        headlineLineHeight == 110 * hf
        headlineLines == wrapText(hf, text.headline, maxWidth)
        headlineTotalHeight == Len(headlineLines) * headlineLineHeight
        cf == ctaFontSize(w)
        ctaWidth == measureText(cf, text.cta)
        ctaHeight == 160 * cf
        ctaY == 100 * h - padding
        ctaBgPadding == 40 * cf
        headlineY == ctaY - ctaHeight - padding \div 2
        tagY == headlineY - headlineTotalHeight - padding \div 2
        tf == tagFontSize(w)
        tagWidth == measureText(tf, text.tag)
        tagHeight == 180 * tf
    IN  [width |-> w, height |-> h,
         ops |->
           << [op |-> "drawImage", part |-> "image", image |-> image, x |-> 0, y |-> 0],
              [op |-> "fillRect", part |-> "gradient", x |-> 0, y |-> 0,
               w |-> 100 * w, h |-> 100 * h,
               from |-> 40 * h, to |-> 100 * h],
              [op |-> "roundRect", part |-> "cta", fill |-> "#DC2626", x |-> padding,
               y |-> ctaY - ctaHeight + ctaBgPadding \div 2,
               w |-> ctaWidth + ctaBgPadding * 2, h |-> ctaHeight],
              [op |-> "fillText", part |-> "cta", text |-> text.cta, font |-> cf,
               x |-> padding + ctaBgPadding,
               y |-> ctaY - ctaHeight \div 2 + ctaBgPadding \div 2] >>
           \o [i \in 1..Len(headlineLines) |->
                 [op |-> "fillText", part |-> "headline", text |-> headlineLines[i],
                  font |-> hf, x |-> padding,
                  y |-> headlineY - (Len(headlineLines) - i) * headlineLineHeight]]
           \o << [op |-> "roundRect", part |-> "tag", fill |-> "#F97316", x |-> padding,
                  y |-> tagY - tagHeight, w |-> tagWidth + 150 * tf,
                  h |-> tagHeight],
                 [op |-> "fillText", part |-> "tag", text |-> text.tag, font |-> tf,
                  x |-> padding + 75 * tf, y |-> tagY - tagHeight \div 2] >>]

\* image bytes handed to the compositor: two that decode and one that does not
ComposeImages ==
    {ImageBytes("small", "image/png"), ImageBytes("large", "image/png"),
     ImageBytes("corrupt", "image/png")}

\* image.width and image.height of the decoded bytes
naturalWidth(image) == IF image.src = "small" THEN 50 ELSE 1000
naturalHeight(image) == IF image.src = "small" THEN 80 ELSE 1000

\* whether the browser decodes the data URL made of the bytes
Decodes(image) == image.src # "corrupt"

Caption(tag, headline, cta) == [tag |-> tag, headline |-> headline, cta |-> cta]

\* captions that vary one part, the other parts kept short: the headline
\* over all strings, the tag and the cta, which are never wrapped, over the
\* strings two characters shorter
ComposeCaptions ==
    {Caption(<<"A">>, hl, <<"A">>) : hl \in Strs(MaxChars)}
        \cup {Caption(tg, <<"a", " ", "A">>, <<>>) : tg \in Strs(MaxChars - 2)}
        \cup {Caption(<<>>, <<>>, ct) : ct \in Strs(MaxChars - 2)}

\* DICA RAPIDA / Como crescer no Instagram em 2024 / SAIBA MAIS, letter by
\* letter in the model's alphabet (capitals "A", other glyphs "a")
ScenarioCaption ==
    Caption(<<"A", "A", "A", "A", " ", "A", "A", "A", "A", "A", "A">>,
            <<"A", "a", "a", "a", " ", "a", "a", "a", "a", "a", "a", "a", " ",
              "a", "a", " ", "A", "a", "a", "a", "a", "a", "a", "a", "a", " ",
              "a", "a", " ", "a", "a", "a", "a">>,
            <<"A", "A", "A", "A", "A", " ", "A", "A", "A", "A">>)

\* a caller that composes the scenario caption on a 1000 x 1000 image
ScenarioPool ==
    {[image |-> ImageBytes("large", "image/png"), mimeType |-> "image/png",
      text |-> ScenarioCaption]}

\* argument triples whose mime type is the one of the bytes
ComposeArgs ==
    {[image |-> im, mimeType |-> im.fmt, text |-> tx] :
        im \in ComposeImages, tx \in ComposeCaptions}

\* a caller that holds several argument triples, differing in image and text
MixedPool ==
    {[image |-> ImageBytes("small", "image/png"), mimeType |-> "image/png",
      text |-> Caption(<<"A">>, <<"A", " ", "A", " ", "a">>, <<"A">>)],
     [image |-> ImageBytes("large", "image/png"), mimeType |-> "image/png",
      text |-> Caption(<<"A">>, <<"A", " ", "A", " ", "a">>, <<"A">>)],
     [image |-> ImageBytes("small", "image/png"), mimeType |-> "image/jpeg",
      text |-> Caption(<<"a">>, <<"a", "a">>, <<>>)],
     [image |-> ImageBytes("corrupt", "image/png"), mimeType |-> "image/png",
      text |-> Caption(<<"A">>, <<"a">>, <<"A">>)]}

InitCompose ==
    /\ IdleEditor
    /\ IdlePosts
    /\ IdleRetry /\ IdleVideo /\ IdleImageEditor /\ IdleComic /\ IdleSize
    /\ composePool \in {MixedPool, ScenarioPool} \cup {{a} : a \in ComposeArgs}
    /\ composeCalls = {}
    /\ composeLog = <<>>
    /\ callCount = 0

\* mergeTextAndImage up to image.src = ...: a canvas and a 2d context of its
\* own for the call, and an Image that starts decoding
composeCall(args) ==
    /\ args \in composePool
    /\ callCount < MaxCalls
    /\ callCount' = callCount + 1
    /\ composeCalls' = composeCalls \cup
           {[id |-> callCount + 1, image |-> args.image,
             mimeType |-> args.mimeType, text |-> args.text]}
    /\ UNCHANGED <<notComposeVars, composePool, composeLog>>

\* image.onload of a call: draw, resolve with canvas.toDataURL
composeOnload(call) ==
    /\ call \in composeCalls
    /\ Decodes(call.image)
    /\ composeCalls' = composeCalls \ {call}
    /\ LET r == mergeTextAndImage(call.image, call.mimeType, call.text, "decoded")
       IN  composeLog' = Append(composeLog,
               [id |-> call.id, image |-> call.image, mimeType |-> call.mimeType,
                text |-> call.text, settled |-> r.settled,
                layers |-> r.value[1].layers,
                output |-> Some(DrawOverlay(call.image, naturalWidth(call.image),
                                            naturalHeight(call.image), call.text))])
    /\ UNCHANGED <<notComposeVars, composePool, callCount>>

\* image.onerror of a call: reject
composeOnerror(call) ==
    /\ call \in composeCalls
    /\ ~Decodes(call.image)
    /\ composeCalls' = composeCalls \ {call}
    /\ LET r == mergeTextAndImage(call.image, call.mimeType, call.text, "decodeError")
       IN  composeLog' = Append(composeLog,
               [id |-> call.id, image |-> call.image, mimeType |-> call.mimeType,
                text |-> call.text, settled |-> r.settled,
                layers |-> <<>>, output |-> r.value])
    /\ UNCHANGED <<notComposeVars, composePool, callCount>>

NextCompose ==
    \/ \E args \in composePool : composeCall(args)
    \/ \E call \in composeCalls : composeOnload(call)
    \/ \E call \in composeCalls : composeOnerror(call)

SpecCompose == InitCompose /\ [][NextCompose]_vars

(* ------------------ Touch-Up Canvas: display size ---------------------- *)
\* an exact number n / d, d > 0
Frac(n, d) == [n |-> n, d |-> d]
FracLE(a, b) == a.n * b.d <= b.n * a.d
FracGT(a, b) == a.n * b.d > b.n * a.d
FracEQ(a, b) == a.n * b.d = b.n * a.d
\* a / (n / d) and a * (n / d)
FracDiv(a, n, d) == Frac(a.n * d, a.d * n)
FracMul(a, n, d) == Frac(a.n * n, a.d * d)
\* conversion of a number to the unsigned long of canvas.width
ToUnsignedLong(a) == a.n \div a.d

\* window.innerWidth * 0.8 and window.innerHeight * 0.7
maxWidth(window) == Frac(8 * window.width, 10)
maxHeight(window) == Frac(7 * window.height, 10)

scaledSize_clampsHeightOnly(image, window) ==
    LET w1 == IF FracGT(Frac(image.width, 1), maxWidth(window))
              THEN maxWidth(window) ELSE Frac(image.width, 1)
        h1 == IF FracGT(Frac(image.width, 1), maxWidth(window))
              THEN FracDiv(w1, image.width, image.height)
              ELSE Frac(image.height, 1)
    IN  IF FracGT(h1, maxHeight(window))
        THEN [width |-> w1, height |-> maxHeight(window)]
        ELSE [width |-> w1, height |-> h1]

\* width and height after the two if statements of image.onload
scaledSize(image, window) ==
    LET w1 == IF FracGT(Frac(image.width, 1), maxWidth(window))
              THEN maxWidth(window) ELSE Frac(image.width, 1)
        h1 == IF FracGT(Frac(image.width, 1), maxWidth(window))
              THEN FracDiv(w1, image.width, image.height)
              ELSE Frac(image.height, 1)
    IN  IF FracGT(h1, maxHeight(window))
        THEN [width |-> FracMul(maxHeight(window), image.width, image.height),
              height |-> maxHeight(window)]
        ELSE [width |-> w1, height |-> h1]

\* the sizes of decoded panel images and of windows
ImageSizes == [width : 1..MaxImageSide, height : 1..MaxImageSide]
WindowSizes == [width : 1..MaxWindowSide, height : 1..MaxWindowSide]

InitSize ==
    /\ IdleEditor /\ IdlePosts /\ IdleCompose /\ IdleRetry /\ IdleVideo /\ IdleImageEditor /\ IdleComic
    /\ imageSize \in ImageSizes
    /\ windowSize \in WindowSizes
    /\ displaySize = NULL
    /\ canvasSize = NULL

\* image.onload of the effect: compute the size, set the container's style
\* and the canvas' bitmap size
sizeOnload ==
    /\ displaySize = NULL
    /\ displaySize' = Some(scaledSize(imageSize, windowSize))
    /\ canvasSize' = Some([width |-> ToUnsignedLong(scaledSize(imageSize, windowSize).width),
                           height |-> ToUnsignedLong(scaledSize(imageSize, windowSize).height)])
    /\ UNCHANGED <<notSizeVars, imageSize, windowSize>>

NextSize == sizeOnload

SpecSize == InitSize /\ [][NextSize]_vars

(* ---------------------------- comic creator ---------------------------- *)
\* a script the text model returns: scenes numbered from 1
ComicScript(number, n) == [number |-> number, scenes |-> [k \in 1..n |-> k]]

\* what generateHqPanel resolves with, for a scene of a script
PanelImage(scriptNumber, sceneNumber) == [script |-> scriptNumber, scene |-> sceneNumber]

\* the panel states: { isLoading: true, sceneNumber }, { isLoading: false,
\* sceneNumber, error } and { imageBase64, mimeType, sceneNumber }
LoadingPanel(sceneNumber) == [kind |-> "loading", sceneNumber |-> sceneNumber, image |-> NULL]
ErrorPanel(sceneNumber) == [kind |-> "error", sceneNumber |-> sceneNumber, image |-> NULL]
ImagePanel(sceneNumber, image) == [kind |-> "image", sceneNumber |-> sceneNumber, image |-> Some(image)]

\* 'isLoading' in p
HasIsLoading(p) == p.kind \in {"loading", "error"}

\* prevPanels.map(p => 'isLoading' in p && p.sceneNumber === scene.sceneNumber ? new : p)
replacePanel(prevPanels, sceneNumber, new) ==
    [i \in 1..Len(prevPanels) |->
        IF HasIsLoading(prevPanels[i]) /\ prevPanels[i].sceneNumber = sceneNumber
        THEN new ELSE prevPanels[i]]

InitComic == IdleEditor /\ IdlePosts /\ IdleCompose /\ IdleRetry /\ IdleVideo /\ IdleImageEditor /\ IdleSize /\ IdleComic

\* the Gerar Roteiro button, disabled while isLoading
handleGenerateScript(ideaEmpty) ==
    /\ step = "idea"
    /\ ~comicLoading
    /\ scriptCount < MaxScripts
    /\ IF ideaEmpty
       THEN /\ comicError' = "empty"
            /\ UNCHANGED <<comicLoading, script, scriptJob, scriptCount>>
       ELSE /\ comicLoading' = TRUE
            /\ comicError' = NoError
            /\ script' = NULL
            /\ scriptJob' = TRUE
            /\ scriptCount' = scriptCount + 1
    /\ UNCHANGED <<notComicVars, step, panels, panelRuns>>

\* generateComicScript resolves
scriptResolve(n) ==
    /\ scriptJob
    /\ script' = Some(ComicScript(scriptCount, n))
    /\ step' = "script"
    /\ comicLoading' = FALSE
    /\ scriptJob' = FALSE
    /\ UNCHANGED <<notComicVars, panels, comicError, panelRuns, scriptCount>>

\* generateComicScript rejects
scriptReject ==
    /\ scriptJob
    /\ comicError' = "failed"
    /\ comicLoading' = FALSE
    /\ scriptJob' = FALSE
    /\ UNCHANGED <<notComicVars, step, script, panels, panelRuns, scriptCount>>

\* the Voltar button of the script step
backToIdea ==
    /\ step = "script"
    /\ step' = "idea"
    /\ UNCHANGED <<notComicVars, script, panels, comicLoading, comicError,
                   scriptJob, panelRuns, scriptCount>>

\* the state of a handleGeneratePanels call that is about to handle the scene
\* at the given index (from 1): waiting for the 2 s timeout, awaiting
\* generateHqPanel, or returned
RunAt(run, index) ==
    IF index > Len(run.scenes) THEN {}
    ELSE {[run EXCEPT !.index = index,
                      !.phase = IF index > 1 THEN "delay" ELSE "calling"]}

\* handleGeneratePanels up to its first await
handleGeneratePanels ==
    /\ step = "script"
    /\ script # NULL
    /\ step' = "panels"
    /\ panels' = [k \in 1..Len(script[1].scenes) |-> LoadingPanel(script[1].scenes[k])]
    /\ panelRuns' = panelRuns \cup
           RunAt([script |-> script[1].number, scenes |-> script[1].scenes,
                  index |-> 1, phase |-> "calling"], 1)
    /\ UNCHANGED <<notComicVars, script, comicLoading, comicError, scriptJob, scriptCount>>

\* the 2 s timeout before a scene that is not the first fires
panelDelayFires(run) ==
    /\ run \in panelRuns
    /\ run.phase = "delay"
    /\ panelRuns' = (panelRuns \ {run}) \cup {[run EXCEPT !.phase = "calling"]}
    /\ UNCHANGED <<notComicVars, step, script, panels, comicLoading, comicError,
                   scriptJob, scriptCount>>

\* generateHqPanel resolves for the scene the call is at
panelResolve(run) ==
    /\ run \in panelRuns
    /\ run.phase = "calling"
    /\ panels' = replacePanel(panels, run.scenes[run.index],
                              ImagePanel(run.scenes[run.index],
                                         PanelImage(run.script, run.scenes[run.index])))
    /\ panelRuns' = (panelRuns \ {run}) \cup RunAt(run, run.index + 1)
    /\ UNCHANGED <<notComicVars, step, script, comicLoading, comicError,
                   scriptJob, scriptCount>>

\* generateHqPanel rejects for the scene the call is at
panelReject(run) ==
    /\ run \in panelRuns
    /\ run.phase = "calling"
    /\ panels' = replacePanel(panels, run.scenes[run.index],
                              ErrorPanel(run.scenes[run.index]))
    /\ panelRuns' = (panelRuns \ {run}) \cup RunAt(run, run.index + 1)
    /\ UNCHANGED <<notComicVars, step, script, comicLoading, comicError,
                   scriptJob, scriptCount>>

\* the Criar Nova Historia button of the panels step
handleStartOver ==
    /\ step = "panels"
    /\ step' = "idea"
    /\ script' = NULL
    /\ panels' = <<>>
    /\ comicError' = NoError
    /\ comicLoading' = FALSE
    /\ UNCHANGED <<notComicVars, scriptJob, panelRuns, scriptCount>>

NextComic ==
    \/ \E ideaEmpty \in BOOLEAN : handleGenerateScript(ideaEmpty)
    \/ \E n \in 0..MaxScenes : scriptResolve(n)
    \/ scriptReject
    \/ backToIdea
    \/ handleGeneratePanels
    \/ \E run \in panelRuns : panelDelayFires(run)
    \/ \E run \in panelRuns : panelResolve(run)
    \/ \E run \in panelRuns : panelReject(run)
    \/ handleStartOver

\* every generation call settles and every timeout fires
SpecComic ==
    /\ InitComic
    /\ [][NextComic]_vars
    /\ WF_vars(\E run \in panelRuns : panelDelayFires(run))
    /\ WF_vars(\E run \in panelRuns : panelResolve(run) \/ panelReject(run))
    /\ WF_vars((\E n \in 0..MaxScenes : scriptResolve(n)) \/ scriptReject)

(* ----------------------- standalone image editor ----------------------- *)
InitImageEditor ==
    IdleEditor /\ IdlePosts /\ IdleCompose /\ IdleRetry /\ IdleVideo /\ IdleSize /\ IdleComic
        /\ IdleImageEditor

\* a file is chosen (first upload or Trocar Imagem, which is never disabled):
\* handleFileChange up to the await
handleFileChange(isImage) ==
    /\ filesPicked < MaxFiles
    /\ filesPicked' = filesPicked + 1
    /\ IF ~isImage
       THEN /\ editorError' = "invalid"
            /\ UNCHANGED <<editedImage, fileReads>>
       ELSE /\ editorError' = NoError
            /\ editedImage' = NULL
            /\ fileReads' = fileReads \cup {filesPicked + 1}
    /\ UNCHANGED <<notImageEditorVars, originalImage, editorLoading, editCall,
                   editsRequested>>

\* fileToBase64 resolves: setOriginalImage
fileReadResolve(file) ==
    /\ file \in fileReads
    /\ fileReads' = fileReads \ {file}
    /\ originalImage' = Some(file)
    /\ UNCHANGED <<notImageEditorVars, editedImage, editorLoading, editorError,
                   editCall, filesPicked, editsRequested>>

\* fileToBase64 rejects: nothing handles the rejection
fileReadReject(file) ==
    /\ file \in fileReads
    /\ fileReads' = fileReads \ {file}
    /\ UNCHANGED <<notImageEditorVars, originalImage, editedImage, editorLoading,
                   editorError, editCall, filesPicked, editsRequested>>

\* the Aplicar Edicao button, rendered with an original and disabled while
\* isLoading or without a prompt: handleEditImage up to the await
handleEditImage ==
    /\ originalImage # NULL
    /\ ~editorLoading
    /\ editsRequested < MaxEdits
    /\ editsRequested' = editsRequested + 1
    /\ editorLoading' = TRUE
    /\ editorError' = NoError
    /\ editCall' = originalImage
    /\ UNCHANGED <<notImageEditorVars, originalImage, editedImage, fileReads,
                   filesPicked>>

\* editImage resolves: setEditedImage, then finally
editImageResolve ==
    /\ editCall # NULL
    /\ editedImage' = Some([from |-> editCall[1]])
    /\ editorLoading' = FALSE
    /\ editCall' = NULL
    /\ UNCHANGED <<notImageEditorVars, originalImage, editorError, fileReads,
                   filesPicked, editsRequested>>

\* editImage rejects: setError, then finally
editImageReject ==
    /\ editCall # NULL
    /\ editorError' = "failed"
    /\ editorLoading' = FALSE
    /\ editCall' = NULL
    /\ UNCHANGED <<notImageEditorVars, originalImage, editedImage, fileReads,
                   filesPicked, editsRequested>>

NextImageEditor ==
    \/ \E isImage \in BOOLEAN : handleFileChange(isImage)
    \/ \E file \in fileReads : fileReadResolve(file)
    \/ \E file \in fileReads : fileReadReject(file)
    \/ handleEditImage
    \/ editImageResolve
    \/ editImageReject

SpecImageEditor == InitImageEditor /\ [][NextImageEditor]_vars

(* ----------------------------- video creator ---------------------------- *)
InitVideo ==
    /\ IdleEditor /\ IdlePosts /\ IdleCompose /\ IdleRetry /\ IdleSize /\ IdleComic
        /\ IdleImageEditor
    /\ apiKey \in BOOLEAN
    /\ videoPc = "idle"
    /\ operation = NULL
    /\ remote = "none"
    /\ pollFailures = 0
    /\ videoLoading = FALSE
    /\ videoError = NoError
    /\ generatedVideoUrl = NULL
    /\ videoCalls = 0

\* what the service answers for the operation: its name, whether it is done,
\* and whether its response carries a download link
RemoteOperation(name) ==
    [name |-> name, done |-> remote # "running", link |-> remote = "link"]

\* generateVideo throws: handleGenerateVideo's catch and finally
videoThrows(message) ==
    /\ videoPc' = "idle"
    /\ videoError' = message
    /\ videoLoading' = FALSE
    /\ UNCHANGED generatedVideoUrl

\* the Gerar Video button, disabled while isLoading or without prompt and
\* image: handleGenerateVideo up to the await, and generateVideo up to its
\* first await
handleGenerateVideo(hasPrompt, hasImage) ==
    /\ ~videoLoading
    /\ hasPrompt \/ hasImage
    /\ videoCalls < MaxVideos
    /\ videoCalls' = videoCalls + 1
    /\ pollFailures' = 0
    /\ operation' = NULL
    /\ IF apiKey
       THEN /\ videoLoading' = TRUE
            /\ videoError' = NoError
            /\ generatedVideoUrl' = NULL
            /\ videoPc' = "start"
            /\ remote' = "running"
       ELSE \* createAIInstance throws
            /\ videoLoading' = FALSE
            /\ videoError' = "nokey"
            /\ generatedVideoUrl' = NULL
            /\ videoPc' = "idle"
            /\ UNCHANGED remote
    /\ UNCHANGED <<notVideoVars, apiKey>>

\* the service finishes the operation, with or without a video
remoteCompletes(hasVideo) ==
    /\ remote = "running"
    /\ remote' = IF hasVideo THEN "link" ELSE "nolink"
    /\ UNCHANGED <<notVideoVars, apiKey, videoPc, operation, pollFailures,
                   videoLoading, videoError, generatedVideoUrl, videoCalls>>

\* withRetry(generateVideos) resolves with the operation; the loop test
startResolves ==
    /\ videoPc = "start"
    /\ operation' = Some(RemoteOperation(videoCalls))
    /\ videoPc' = IF operation'[1].done THEN "finish" ELSE "wait"
    /\ UNCHANGED <<notVideoVars, apiKey, remote, pollFailures, videoLoading,
                   videoError, generatedVideoUrl, videoCalls>>

\* withRetry(generateVideos) rejects
startRejects ==
    /\ videoPc = "start"
    /\ videoThrows("failed")
    /\ UNCHANGED <<notVideoVars, apiKey, operation, remote, pollFailures,
                   videoCalls>>

\* the 10 s timer of the polling loop fires; getVideosOperation is called
pollDelayFires ==
    /\ videoPc = "wait"
    /\ videoPc' = "poll"
    /\ UNCHANGED <<notVideoVars, apiKey, operation, remote, pollFailures,
                   videoLoading, videoError, generatedVideoUrl, videoCalls>>

\* getVideosOperation resolves; the loop test
pollResolves ==
    /\ videoPc = "poll"
    /\ operation' = Some(RemoteOperation(operation[1].name))
    /\ videoPc' = IF operation'[1].done THEN "finish" ELSE "wait"
    /\ UNCHANGED <<notVideoVars, apiKey, remote, pollFailures, videoLoading,
                   videoError, generatedVideoUrl, videoCalls>>

pollRejects_aborts ==
    /\ videoPc = "poll"
    /\ pollFailures < MaxPollFailures
    /\ pollFailures' = pollFailures + 1
    /\ videoThrows("failed")
    /\ UNCHANGED <<notVideoVars, apiKey, operation, remote, videoCalls>>

\* getVideosOperation rejects: the catch logs; the loop test
pollRejects ==
    /\ videoPc = "poll"
    /\ pollFailures < MaxPollFailures
    /\ pollFailures' = pollFailures + 1
    /\ videoPc' = IF operation[1].done THEN "finish" ELSE "wait"
    /\ UNCHANGED <<notVideoVars, apiKey, operation, remote, videoLoading,
                   videoError, generatedVideoUrl, videoCalls>>

\* after the loop: the download link and the API key are looked up, and the
\* video is fetched
afterLoop ==
    /\ videoPc = "finish"
    /\ IF operation[1].link /\ apiKey
       THEN /\ videoPc' = "fetch"
            /\ UNCHANGED <<videoLoading, videoError, generatedVideoUrl>>
       ELSE videoThrows(IF operation[1].link THEN "nokey" ELSE "nolink")
    /\ UNCHANGED <<notVideoVars, apiKey, operation, remote, pollFailures,
                   videoCalls>>

\* fetch resolves; generateVideo returns the blob or throws on a bad status
fetchResolves(ok) ==
    /\ videoPc = "fetch"
    /\ IF ok
       THEN /\ videoPc' = "idle"
            /\ generatedVideoUrl' = Some(operation[1].name)
            /\ videoLoading' = FALSE
            /\ UNCHANGED videoError
       ELSE videoThrows("download")
    /\ UNCHANGED <<notVideoVars, apiKey, operation, remote, pollFailures,
                   videoCalls>>

\* fetch rejects
fetchRejects ==
    /\ videoPc = "fetch"
    /\ videoThrows("failed")
    /\ UNCHANGED <<notVideoVars, apiKey, operation, remote, pollFailures,
                   videoCalls>>

NextVideo ==
    \/ \E hasPrompt, hasImage \in BOOLEAN : handleGenerateVideo(hasPrompt, hasImage)
    \/ \E hasVideo \in BOOLEAN : remoteCompletes(hasVideo)
    \/ startResolves
    \/ startRejects
    \/ pollDelayFires
    \/ pollResolves
    \/ pollRejects
    \/ afterLoop
    \/ \E ok \in BOOLEAN : fetchResolves(ok)
    \/ fetchRejects

\* Every pending promise and timer settles, and the service finishes the
\* operation; at most MaxPollFailures polls of a generation fail, so the
\* service's answer is eventually received.
SpecVideo ==
    /\ InitVideo
    /\ [][NextVideo]_vars
    /\ WF_vars(\E hasVideo \in BOOLEAN : remoteCompletes(hasVideo))
    /\ WF_vars(startResolves \/ startRejects)
    /\ WF_vars(pollDelayFires)
    /\ WF_vars(pollResolves \/ pollRejects)
    /\ WF_vars(afterLoop)
    /\ WF_vars((\E ok \in BOOLEAN : fetchResolves(ok)) \/ fetchRejects)

(* ------------------------------ withRetry ------------------------------ *)
\* words an error's text is made of
ErrorWords == {"429", "RESOURCE_EXHAUSTED", "resource_exhausted", "500", "Unavailable"}

\* what an attempt rejects with: undefined, or a value whose toString() is a
\* text of at most one word
ApiErrors == {NULL} \cup {Some(<<>>)} \cup {Some(<<w>>) : w \in ErrorWords}

\* what an attempt resolves with: a response, held like an error's text
ApiValues == {Some(<<"response1">>), Some(<<"response2">>)}

\* the initialDelay arguments: the default and a shorter one
InitialDelays == {5000, 1000}

\* String.prototype.toLowerCase, word by word
toLowerCase(text) ==
    [k \in 1..Len(text) |->
        CASE text[k] = "RESOURCE_EXHAUSTED" -> "resource_exhausted"
          [] text[k] = "Unavailable" -> "unavailable"
          [] OTHER -> text[k]]

\* String.prototype.includes for a needle of one word
includes(text, needle) == \E k \in 1..Len(text) : text[k] = needle

\* e?.toString().toLowerCase() || ''
errorMessage(e) == IF e = NULL THEN <<>> ELSE toLowerCase(e[1])

\* the test of the catch block
isRateLimit(e) ==
    includes(errorMessage(e), "429") \/ includes(errorMessage(e), "resource_exhausted")

\* the error thrown after the loop
LimitReached == Some(<<"limite de solicitacoes">>)

loopTest_offByOne(i, max, invoked) ==
    IF i <= max
    THEN /\ retryPc' = "awaitCall"
         /\ retryInvoked' = invoked + 1
         /\ retryResult' = NULL
    ELSE /\ retryPc' = "thrown"
         /\ retryInvoked' = invoked
         /\ retryResult' = Some([kind |-> "throw", value |-> LimitReached])

\* the for loop's test i < maxRetries: invoke apiCall, or leave the loop and
\* throw
loopTest(i, max, invoked) ==
    IF i < max
    THEN /\ retryPc' = "awaitCall"
         /\ retryInvoked' = invoked + 1
         /\ retryResult' = NULL
    ELSE /\ retryPc' = "thrown"
         /\ retryInvoked' = invoked
         /\ retryResult' = Some([kind |-> "throw", value |-> LimitReached])

\* a caller invokes withRetry(apiCall, max, initialDelay)
withRetry(max, initialDelay) ==
    /\ retryPc \in {"idle", "returned", "thrown"}
    /\ retryCalls < MaxRetryCalls
    /\ retryCalls' = retryCalls + 1
    /\ maxRetries' = max
    /\ retryDelay' = initialDelay
    /\ retryI' = 0
    /\ retryAttempts' = <<>>
    /\ retryWaits' = <<>>
    /\ loopTest(0, max, 0)
    /\ UNCHANGED notRetryVars

\* the awaited apiCall() resolves: return its value
apiCallResolves(v) ==
    /\ retryPc = "awaitCall"
    /\ retryAttempts' = Append(retryAttempts, [kind |-> "value", value |-> v])
    /\ retryPc' = "returned"
    /\ retryResult' = Some([kind |-> "return", value |-> v])
    /\ UNCHANGED <<notRetryVars, maxRetries, retryI, retryDelay, retryInvoked,
                   retryWaits, retryCalls>>

apiCallRejects_retriesAll(e) ==
    /\ retryPc = "awaitCall"
    /\ retryAttempts' = Append(retryAttempts, [kind |-> "error", value |-> e])
    /\ retryPc' = "sleeping"
    /\ UNCHANGED <<notRetryVars, maxRetries, retryI, retryDelay, retryInvoked,
                   retryWaits, retryResult, retryCalls>>

\* the awaited apiCall() rejects: start the timeout on a rate limit error,
\* rethrow anything else
apiCallRejects(e) ==
    /\ retryPc = "awaitCall"
    /\ retryAttempts' = Append(retryAttempts, [kind |-> "error", value |-> e])
    /\ IF isRateLimit(e)
       THEN /\ retryPc' = "sleeping"
            /\ retryResult' = retryResult
       ELSE /\ retryPc' = "thrown"
            /\ retryResult' = Some([kind |-> "throw", value |-> e])
    /\ UNCHANGED <<notRetryVars, maxRetries, retryI, retryDelay, retryInvoked,
                   retryWaits, retryCalls>>

\* the timeout fires: double the delay, i++, and test the loop again
timerFires ==
    /\ retryPc = "sleeping"
    /\ retryWaits' = Append(retryWaits, retryDelay)
    /\ retryDelay' = retryDelay * 2
    /\ retryI' = retryI + 1
    /\ loopTest(retryI + 1, maxRetries, retryInvoked)
    /\ UNCHANGED <<notRetryVars, maxRetries, retryAttempts, retryCalls>>

InitRetry == IdleEditor /\ IdlePosts /\ IdleCompose /\ IdleRetry /\ IdleVideo /\ IdleImageEditor /\ IdleComic /\ IdleSize

NextRetry ==
    \/ \E max \in 0..MaxAttempts, d \in InitialDelays : withRetry(max, d)
    \/ \E v \in ApiValues : apiCallResolves(v)
    \/ \E e \in ApiErrors : apiCallRejects(e)
    \/ timerFires

\* every awaited promise settles and every timeout fires
SpecRetry ==
    /\ InitRetry
    /\ [][NextRetry]_vars
    /\ WF_vars((\E v \in ApiValues : apiCallResolves(v))
                   \/ (\E e \in ApiErrors : apiCallRejects(e)))
    /\ WF_vars(timerFires)

(* ------------------------ Touch-Up Canvas: claims ---------------------- *)

\* spec-level session state: Editing until cancel() or save() has been invoked
NotEditing == closed \/ saveCount > 0

\* C1: no step ever changes the background image, and an output (background
\* combined with the drawing buffer) appears only in a step that completes a
\* pending save; strokes change the drawing buffer only.
C1_BackgroundNeverMutated ==
    [][/\ background' = background
       /\ (delivered' # delivered => Len(pendingSaves') < Len(pendingSaves))]_vars

\* C1 witness: a stroke has painted the drawing buffer of a loaded session
C1_Witness ==
    /\ imgState = "loaded"
    /\ \E c \in DOMAIN buffer : buffer[c] # CLEAR
    /\ \A c \in DOMAIN background : background[c] = BG

\* C2: once cancel() has been invoked, onSave is never called afterwards.
C2_NoOutputAfterCancel ==
    \A i \in 1..Len(delivered) : ~delivered[i].afterClose

\* C3: one edit session delivers at most one flattened output.
C3_AtMostOneOutput == Len(delivered) <= 1

\* C4: save() is not an asynchronous boundary: every delivered output holds
\* exactly the drawing buffer as it was when save() was invoked.
C4_SaveIsSynchronous ==
    \A i \in 1..Len(delivered) : ~delivered[i].touched

\* C5: an operation invoked on a session that is not Editing (after cancel or
\* save) changes neither the drawing buffer nor the delivered output: the
\* buffer stays as it is and only the save invoked while Editing delivers.
C5_NotEditingRejects ==
    [][(NotEditing /\ imgState' = imgState) =>
          /\ buffer' = buffer
          /\ \A i \in 1..Len(delivered') : delivered'[i].id = 1]_vars

\* C7: when the background cannot be decoded the session never enters
\* Editing: it accepts no stroke and keeps no drawing on a default-sized surface.
C7_DecodeFailureRejects ==
    [][imgState = "failed" => ((isDrawing' => isDrawing) /\ buffer' = buffer)]_vars

\* C8: nothing is drawn into the drawing buffer before the decode of the
\* background image has completed.
C8_NoDrawingBeforeDecode ==
    imgState = "loading" => IsTransparent(buffer)

\* the composite operation draw sets for a tool
OpOf(t) == IF t = "brush" THEN "source-over" ELSE "destination-out"

\* C13: an eraser segment leaves every drawing-buffer pixel under its path
\* fully transparent and every pixel outside its path as it was (brush colour
\* where painted).
C13_EraserContainment ==
    [][\A p \in 0..(canvasW - 1) :
          (draw(p) /\ isDrawing /\ tool = "eraser") =>
              \A c \in DOMAIN buffer :
                  buffer'[c] = IF c \in Covered(lastPos, p, brushSize, canvasW)
                               THEN CLEAR ELSE buffer[c]]_vars

\* C13 witness: an eraser stroke is in progress on a loaded canvas, the pixel
\* under it is transparent and a pixel beside it still has the brush colour
C13_Witness ==
    /\ imgState = "loaded"
    /\ isDrawing /\ tool = "eraser" /\ gco = "destination-out"
    /\ buffer[lastPos] = CLEAR
    /\ \E c \in DOMAIN buffer : buffer[c] \in BrushColors

\* C14: setTool, setColor and setWidth change no pixel of the drawing buffer,
\* and every segment of a stroke is drawn with the tool, colour and width that
\* held when the stroke was started.
C14_SettingsTakeEffectNextStroke ==
    [][/\ (tool' # tool \/ brushSize' # brushSize \/ brushColor' # brushColor)
            => buffer' = buffer
       /\ \A p \in 0..(canvasW - 1) :
            (draw(p) /\ gesture # NULL) =>
                buffer' = Stroke(buffer,
                                 Covered(lastPos, p, gesture[1].brushSize, canvasW),
                                 OpOf(gesture[1].tool), gesture[1].brushColor)]_vars

\* C15: every output of save has the pixel dimensions of the drawing buffer
\* and shows, pixel by pixel, the drawing buffer where it is opaque and the
\* background where it is transparent.
C15_SaveOutputIsComposite ==
    [][delivered' # delivered =>
          LET out == delivered'[Len(delivered')].image
          IN  /\ DOMAIN out = DOMAIN buffer
              /\ out = Over(buffer, Resample(background, canvasW))]_vars

\* C16: within a gesture every strokeExtend draws the segment from the point
\* of the immediately preceding strokeStart or strokeExtend of that gesture to
\* its own point, and nothing is drawn outside a gesture.
C16_StrokesInGestureOrder ==
    /\ [](gesture # NULL => (isDrawing /\ lastPos = gesture[1].prev))
    /\ [][\A p \in 0..(canvasW - 1) :
            (draw(p) /\ gesture # NULL) =>
                /\ buffer' = Stroke(buffer,
                                    Covered(gesture[1].prev, p, brushSize, canvasW),
                                    OpOf(tool), brushColor)
                /\ lastPos' = p]_vars
    /\ [][(gesture = NULL /\ imgState' = imgState) => buffer' = buffer]_vars

\* C16 witness: a gesture has painted the first pixel in the current colour
\* next to a pixel an earlier segment painted in another colour: its segment
\* starts at its own first point, not where the earlier one ended
C16_Witness ==
    /\ imgState = "loaded"
    /\ gesture # NULL
    /\ gesture[1].brushColor = brushColor
    /\ tool = "brush"
    /\ lastPos = 0
    /\ buffer[0] = brushColor
    /\ \E c \in DOMAIN buffer : c > 0 /\ buffer[c] \in BrushColors \ {brushColor}

(* ----------------------- post list, downloads: claims ------------------ *)

\* C6: a merged image is downloaded only complete (base image, gradient, CTA,
\* headline and tag drawn, in this order), every download request ends in
\* exactly one of a download or an alert, and a failed compose (missing
\* context, undecodable base image) downloads nothing.
C6_ComposeAllOrNothing ==
    /\ []((lastDownload # NULL /\ lastDownload[1].kind = "merged")
            => lastDownload[1].layers = ComposedLayers)
    /\ [](dlStarted = dlDone + dlFailed + Cardinality(composeJobs))
    /\ [][dlFailed' > dlFailed =>
            (lastDownload' = lastDownload /\ dlDone' = dlDone)]_vars

\* C6 witness: a compose has failed and nothing has been downloaded
C6_Witness == dlFailed > 0 /\ dlDone = 0 /\ lastDownload = NULL

\* C9: each post's imageMimeType is the mime type delivered together with the
\* bytes currently stored in the post's image field.
C9_MimeTravelsWithBytes ==
    posts # NULL =>
        \A i \in 1..Len(PostList) :
            PostList[i].imageMimeType = PostList[i].image.fmt

RECURSIVE CycleTimes(_, _, _)
CycleTimes(list, postId, k) ==
    IF k = 0 THEN list
    ELSE LET post == list[CHOOSE i \in 1..Len(list) : list[i].id = postId]
         IN  CycleTimes(setActiveTextIndex(list, postId, NextIndex(post)),
                        postId, k - 1)

\* the arguments handleDownload passes to the compositor for a post
ComposeInputs(post) ==
    [image |-> post.image, mimeType |-> post.imageMimeType, text |-> activeText(post)]

\* C11: pressing the cycle button of a post len(texts) times gives back the
\* same post list (activeTextIndex, texts, image and imageMimeType of that
\* post and of every other post), so a compose afterwards gets the same inputs.
C11_CyclingNonDestructive ==
    posts # NULL =>
        \A i \in 1..Len(PostList) :
            Len(PostList[i].texts) > 1 =>
                LET after == CycleTimes(PostList, PostList[i].id, Len(PostList[i].texts))
                IN  /\ after = PostList
                    /\ \A j \in 1..Len(PostList) :
                          ComposeInputs(after[j]) = ComposeInputs(PostList[j])

\* C11 witness: a list of several posts, one of them cycled away from its
\* first caption option while another one still shows its first option
C11_Witness ==
    /\ posts # NULL
    /\ \E i, j \in 1..Len(PostList) :
          /\ i # j
          /\ Len(PostList[i].texts) > 1
          /\ PostList[i].activeTextIndex > 0
          /\ PostList[j].activeTextIndex = 0

\* C17: downloading a post whose texts is empty starts no compose and
\* downloads the post's image bytes under the post's mime type, without
\* gradient or caption layers.
C17_EmptyTextsDownloadRaw ==
    [][\A postId \in PostIds :
          (handleDownload(postId) /\ Len(PostOf(postId).texts) = 0) =>
              /\ composeJobs' = composeJobs
              /\ lastDownload' # NULL
              /\ lastDownload'[1].kind = "raw"
              /\ lastDownload'[1].image = PostOf(postId).image
              /\ lastDownload'[1].mimeType = PostOf(postId).imageMimeType
              /\ lastDownload'[1].layers = <<>>]_vars

\* C17 witness: a post without captions has been downloaded
C17_Witness ==
    /\ posts # NULL
    /\ \A i \in 1..Len(PostList) : Len(PostList[i].texts) = 0
    /\ Len(PostList) > 0
    /\ dlDone > 0
    /\ lastDownload # NULL
    /\ lastDownload[1].kind = "raw"

\* a post with captions whose activeTextIndex is outside texts
InvalidCaptionState(post) ==
    /\ Len(post.texts) > 0
    /\ ~(0 <= post.activeTextIndex /\ post.activeTextIndex < Len(post.texts))

C27_SourceOverBetweenStrokes ==
    /\ [](~isDrawing => gco = "source-over")
    /\ [][stopDrawing => (~isDrawing' /\ gco' = "source-over")]_vars

\* C27 witness: an eraser stroke has ended where it cleared a painted canvas
C27_Witness ==
    /\ imgState = "loaded"
    /\ ~isDrawing
    /\ gesture = NULL
    /\ tool = "eraser"
    /\ lastPos # 0
    /\ buffer[lastPos] = CLEAR
    /\ buffer[0] # CLEAR
    /\ gco = "source-over"

\* C28: a pointer move paints only while a stroke is active, that is from a
\* pointer-down to the next pointer-up or pointer-leave; outside a stroke it
\* leaves the drawing canvas as it is; pointer-up and pointer-leave end the
\* active stroke.
C28_MoveDrawsOnlyInStroke ==
    /\ [](isDrawing <=> gesture # NULL)
    /\ [][\A p \in 0..(canvasW - 1) :
            (draw(p) /\ gesture = NULL) =>
                (buffer' = buffer /\ gco' = gco /\ ~isDrawing')]_vars
    /\ [][stopDrawing => (~isDrawing' /\ gesture' = NULL /\ buffer' = buffer)]_vars

\* C28 witness: a stroke that painted the first cell has ended and left a
\* cell clear, which a pointer move made now would paint if it drew
C28_Witness ==
    /\ imgState = "loaded"
    /\ ~isDrawing
    /\ gesture = NULL
    /\ buffer[0] # CLEAR
    /\ lastPos = 0
    /\ \E c \in DOMAIN buffer : buffer[c] = CLEAR

\* C32: the step in which the decode of the background completes leaves the
\* drawing canvas fully transparent, at the display size, whatever was
\* painted on it before.
C32_TransparentWhenReady ==
    [][imageOnload =>
          (/\ imgState' = "loaded"
           /\ IsTransparent(buffer')
           /\ DOMAIN buffer' = 0..(canvasW' - 1))]_vars

\* C32 witness: the session is ready with a transparent canvas while a
\* pointer gesture with the brush is in progress
C32_Witness ==
    /\ imgState = "loaded"
    /\ IsTransparent(buffer)
    /\ isDrawing
    /\ gesture # NULL
    /\ gesture[1].tool = "brush"
    /\ tool = "brush"

\* C37: while a generation request runs no post is shown; a request that
\* fails leaves no post shown, an error set and the loading flag cleared; a
\* request that succeeds shows its own posts only, all of them, with the
\* loading flag cleared.
C37_GenerationAllOrNothing ==
    /\ [](isLoading <=> genJob # NULL)
    /\ [](isLoading => posts = NULL)
    /\ [][generateReject =>
            (posts' = NULL /\ ~isLoading' /\ error' # NoError)]_vars
    /\ [][\A postsData \in PostsData, images \in [1..MaxPosts -> ImagenResponses] :
            generateResolve(postsData, images) =>
                /\ ~isLoading'
                /\ posts' # NULL
                /\ \A i \in 1..Len(posts'[1]) :
                      /\ posts'[1][i].id = FreshId + i - 1
                      /\ posts'[1][i].activeTextIndex = 0
                /\ genJob[1].includeCaption => Len(posts'[1]) = Len(postsData)
                /\ (~genJob[1].includeCaption /\ genJob[1].uploadedImage = NULL) =>
                      Len(posts'[1]) =
                          (IF genJob[1].postType = "carousel" THEN CarouselCount ELSE 1)]_vars

\* C37 witness: posts were shown and one of their captions edited, and a
\* later request has failed: no post is shown and nothing is loading
C37_Witness ==
    /\ partEdits > 0
    /\ error = "failed"
    /\ posts = NULL
    /\ ~isLoading

\* C35: a step that changes a post of the list shown changes the image of
\* one post only, whose id is the one of an edit that was in flight and
\* settles in this step; every other post, and the order of the posts, stay
\* as they were; so an edit of a post that is no longer in the list changes
\* nothing.
C35_EditResultGoesToItsPost ==
    [][(posts # NULL /\ posts' # NULL /\ genJob' = genJob) =>
          /\ Len(posts'[1]) = Len(PostList)
          /\ \A i \in 1..Len(PostList) :
                posts'[1][i] # PostList[i] =>
                    /\ PostList[i].id \in editJobs \ editJobs'
                    /\ posts'[1][i] = [PostList[i] EXCEPT !.image = posts'[1][i].image]
                    /\ \A j \in 1..Len(PostList) : j # i => posts'[1][j] = PostList[j]]_vars

\* C35 witness: the posts were regenerated while an edit was in flight, which
\* still is, and the images of both posts of the new list have been edited
C35_Witness ==
    /\ posts # NULL
    /\ Len(PostList) >= 2
    /\ \A i \in 1..Len(PostList) : PostList[i].image.src = "edit"
    /\ \E postId \in editJobs : postId \notin PostIds

(* -------------------------- compositor: claims ------------------------- *)

OpsOf(output, kind, part) ==
    SelectSeq(output.ops, LAMBDA o : o.op = kind /\ o.part = part)

\* the uppercase form of a string
UpperCase(str) == [i \in 1..Len(str) |-> IF str[i] = "a" THEN "A" ELSE str[i]]

\* C19: the text every resolved compose draws in the tag pill is the
\* uppercase form of the caption's tag.
C19_TagRenderedUppercase ==
    \A i \in 1..Len(composeLog) :
        composeLog[i].settled = "resolved" =>
            LET drawn == OpsOf(composeLog[i].output[1], "fillText", "tag")
            IN  /\ Len(drawn) = 1
                /\ drawn[1].text = UpperCase(composeLog[i].text.tag)

\* a headline made of non-empty words joined by single spaces
SingleSpaced(str) ==
    /\ str # <<>>
    /\ \A k \in 1..Len(split(str)) : split(str)[k] # <<>>

\* C20: a headline of words joined by single spaces whose measured width is
\* at most maxTextWidth is drawn as exactly one line holding all its words.
C20_FittingHeadlineOneLine ==
    \A i \in 1..Len(composeLog) :
        composeLog[i].settled = "resolved" =>
            LET out == composeLog[i].output[1]
                headline == composeLog[i].text.headline
                drawn == OpsOf(out, "fillText", "headline")
            IN  (/\ SingleSpaced(headline)
                 /\ measureText(headlineFontSize(out.width), headline)
                        <= MaxTextWidth(out.width))
                    => /\ Len(drawn) = 1
                       /\ drawn[1].text = headline

\* the non-empty words of a string, in order
WordsOf(str) == SelectSeq(split(str), LAMBDA wd : wd # <<>>)

\* the non-empty words of a sequence of lines, read top to bottom
RECURSIVE WordsOfLines(_)
WordsOfLines(lines) ==
    IF lines = <<>> THEN <<>>
    ELSE WordsOf(Head(lines)) \o WordsOfLines(Tail(lines))

\* the texts of the headline lines of a composed image, top to bottom
HeadlineLines(output) ==
    LET drawn == OpsOf(output, "fillText", "headline")
    IN  [k \in 1..Len(drawn) |-> drawn[k].text]

\* the one roundRect of a caption part
PillOf(output, part) == OpsOf(output, "roundRect", part)[1]

\* C21: the headline lines of every resolved compose, read top to bottom,
\* hold the words of the headline once each and in their order, none split;
\* a word wider than maxTextWidth on its own is a line by itself.
C21_WrapKeepsWords ==
    \A i \in 1..Len(composeLog) :
        composeLog[i].settled = "resolved" =>
            LET out == composeLog[i].output[1]
                words == WordsOf(composeLog[i].text.headline)
                lines == HeadlineLines(out)
            IN  /\ WordsOfLines(lines) = words
                /\ \A k \in 1..Len(words) :
                      measureText(headlineFontSize(out.width), words[k])
                            > MaxTextWidth(out.width)
                        => \E l \in 1..Len(lines) : lines[l] = words[k]

\* C21 witness: a resolved compose of a headline of several words, one of
\* them wider than maxTextWidth, drawn on several lines
C21_Witness ==
    \E i \in 1..Len(composeLog) :
        /\ composeLog[i].settled = "resolved"
        /\ LET out == composeLog[i].output[1]
               words == WordsOf(composeLog[i].text.headline)
           IN  /\ Len(words) >= 2
               /\ Len(HeadlineLines(out)) >= 2
               /\ \E k \in 1..Len(words) :
                     measureText(headlineFontSize(out.width), words[k])
                         > MaxTextWidth(out.width)

\* C22: a compose of the empty headline draws no headline line, and the
\* bottom of its tag pill is where a headline block of height 0 puts it:
\* 0.5 x padding above the headline's base line, itself 0.5 x padding
\* above height - padding - ctaHeight.
C22_EmptyHeadlineNoLines ==
    \A i \in 1..Len(composeLog) :
        (composeLog[i].settled = "resolved" /\ composeLog[i].text.headline = <<>>) =>
            LET out == composeLog[i].output[1]
                tagPill == PillOf(out, "tag")
            IN  /\ HeadlineLines(out) = <<>>
                /\ tagPill.y + tagPill.h =
                       100 * out.height - Padding(out.width)
                           - 160 * ctaFontSize(out.width) - Padding(out.width)

\* C23: every resolved compose draws one tag pill and one CTA pill, both of
\* positive width; the tag pill of an empty tag is 1.5 x the tag font size
\* wide and the CTA pill of an empty cta 2 x its pill padding (0.4 x the CTA
\* font size) wide.
C23_EmptyTextPillWidth ==
    \A i \in 1..Len(composeLog) :
        composeLog[i].settled = "resolved" =>
            LET out == composeLog[i].output[1]
                tagPills == OpsOf(out, "roundRect", "tag")
                ctaPills == OpsOf(out, "roundRect", "cta")
            IN  /\ Len(tagPills) = 1
                /\ Len(ctaPills) = 1
                /\ tagPills[1].w > 0
                /\ ctaPills[1].w > 0
                /\ composeLog[i].text.tag = <<>> =>
                       tagPills[1].w = 150 * tagFontSize(out.width)
                /\ composeLog[i].text.cta = <<>> =>
                       ctaPills[1].w = 2 * 40 * ctaFontSize(out.width)

\* C23 witness: a resolved compose of a caption whose tag and cta are empty
C23_Witness ==
    \E i \in 1..Len(composeLog) :
        /\ composeLog[i].settled = "resolved"
        /\ composeLog[i].text.tag = <<>>
        /\ composeLog[i].text.cta = <<>>

\* C24: a compose of a 1000 x 1000 image whose headline is drawn on one or
\* two lines gives a 1000 x 1000 output on which the CTA pill ends at or
\* above y = 1000, the headline block ends at or above the top of the CTA
\* pill, the tag pill ends at or above the top of the headline block, and the
\* tag pill starts at or below y = 400.
C24_BlocksStackedInGradientZone ==
    \A i \in 1..Len(composeLog) :
        (/\ composeLog[i].settled = "resolved"
         /\ naturalWidth(composeLog[i].image) = 1000
         /\ naturalHeight(composeLog[i].image) = 1000
         /\ Len(HeadlineLines(composeLog[i].output[1])) \in {1, 2}) =>
            LET out == composeLog[i].output[1]
                drawn == OpsOf(out, "fillText", "headline")
                headlineTop == drawn[1].y - 110 * drawn[1].font
                headlineBottom == drawn[Len(drawn)].y
                tagPill == PillOf(out, "tag")
                ctaPill == PillOf(out, "cta")
            IN  /\ out.width = 1000
                /\ out.height = 1000
                /\ ctaPill.y + ctaPill.h <= 100000
                /\ headlineBottom <= ctaPill.y
                /\ headlineTop < headlineBottom
                /\ tagPill.y + tagPill.h <= headlineTop
                /\ 40000 <= tagPill.y
                /\ tagPill.y < tagPill.y + tagPill.h

\* C24 witness: the scenario caption composed on the 1000 x 1000 image, its
\* headline on two lines
C24_Witness ==
    \E i \in 1..Len(composeLog) :
        /\ composeLog[i].settled = "resolved"
        /\ composeLog[i].text = ScenarioCaption
        /\ composeLog[i].output[1].width = 1000
        /\ Len(HeadlineLines(composeLog[i].output[1])) = 2

\* C29 as stated: the bottom edge of the CTA pill of every resolved compose
\* is at y = height - padding, padding being 0.08 x width.
C29_CtaBottomAtPadding ==
    \A i \in 1..Len(composeLog) :
        composeLog[i].settled = "resolved" =>
            LET out == composeLog[i].output[1]
                ctaPill == PillOf(out, "cta")
            IN  ctaPill.y + ctaPill.h = 100 * out.height - 8 * out.width

\* C29: the bottom edge of the CTA pill of every resolved compose is
\* 0.2 x the CTA font size below y = height - padding, padding being
\* 0.08 x width and the CTA font size max(18, round(width / 30)).
C29_CtaBottomBelowPadding ==
    \A i \in 1..Len(composeLog) :
        composeLog[i].settled = "resolved" =>
            LET out == composeLog[i].output[1]
                ctaPill == PillOf(out, "cta")
            IN  ctaPill.y + ctaPill.h =
                    100 * out.height - 8 * out.width
                        + 20 * Max(18, Round(out.width, 30))

\* C29 witness: a resolved compose of a caption with a cta on the image that
\* is taller than wide, and one on the square image
C29_Witness ==
    \E i, j \in 1..Len(composeLog) :
        /\ composeLog[i].settled = "resolved"
        /\ composeLog[j].settled = "resolved"
        /\ composeLog[i].text.cta # <<>>
        /\ composeLog[i].output[1].height > composeLog[i].output[1].width
        /\ composeLog[j].output[1].height = composeLog[j].output[1].width

\* C30 as stated: the base line of the lowest headline line is 0.5 x padding
\* above the top edge of the CTA pill.
C30_HeadlineGapHalfPadding ==
    \A i \in 1..Len(composeLog) :
        composeLog[i].settled = "resolved" =>
            LET out == composeLog[i].output[1]
                drawn == OpsOf(out, "fillText", "headline")
            IN  Len(drawn) > 0 =>
                    PillOf(out, "cta").y - drawn[Len(drawn)].y = 4 * out.width

\* C30: the base line of the lowest headline line is 0.5 x padding plus
\* 0.2 x the CTA font size above the top edge of the CTA pill.
C30_HeadlineGapIncludesPillShift ==
    \A i \in 1..Len(composeLog) :
        composeLog[i].settled = "resolved" =>
            LET out == composeLog[i].output[1]
                drawn == OpsOf(out, "fillText", "headline")
            IN  /\ Len(drawn) > 0
                /\ PillOf(out, "cta").y - drawn[Len(drawn)].y =
                       4 * out.width + 20 * ctaFontSize(out.width)

\* C30 witness: a resolved compose whose headline is drawn on two lines
\* above the pill of a non-empty cta
C30_Witness ==
    \E i \in 1..Len(composeLog) :
        /\ composeLog[i].settled = "resolved"
        /\ composeLog[i].text.cta # <<>>
        /\ Len(HeadlineLines(composeLog[i].output[1])) = 2

(* --------------------------- withRetry: claims ------------------------- *)

\* the text of an error contains neither '429' nor 'resource_exhausted'
NotRateLimitText(e) ==
    \A k \in 1..Len(errorMessage(e)) :
        errorMessage(e)[k] \notin {"429", "resource_exhausted"}

\* C25: an attempt that fails with an error whose text contains neither
\* '429' nor 'resource_exhausted' makes withRetry throw that same error in the
\* same step, with no timeout waited for and no further attempt; every
\* attempt but the last one of a call failed with a rate limit error.
C25_NonRateLimitRethrown ==
    /\ [][\A e \in ApiErrors :
            (apiCallRejects(e) /\ NotRateLimitText(e)) =>
                /\ retryPc' = "thrown"
                /\ retryResult' = Some([kind |-> "throw", value |-> e])
                /\ retryWaits' = retryWaits
                /\ retryInvoked' = retryInvoked]_vars
    /\ [](\A k \in 1..(Len(retryAttempts) - 1) :
            /\ retryAttempts[k].kind = "error"
            /\ ~NotRateLimitText(retryAttempts[k].value))
    /\ [](retryPc \in {"returned", "thrown"} => retryInvoked = Len(retryAttempts))

\* C25 witness: after a rate limit failure and its timeout, the second
\* attempt failed with another error, which the call threw
C25_Witness ==
    /\ retryPc = "thrown"
    /\ Len(retryAttempts) = 2
    /\ Len(retryWaits) = 1
    /\ retryAttempts[2].kind = "error"
    /\ NotRateLimitText(retryAttempts[2].value)
    /\ retryResult = Some([kind |-> "throw", value |-> retryAttempts[2].value])

\* a call of withRetry is in progress / has settled
RetryRunning == retryPc \in {"awaitCall", "sleeping"}
RetrySettled == retryPc \in {"returned", "thrown"}

\* C26: a call of withRetry invokes apiCall at most maxRetries times and,
\* attempts settling and timeouts firing, settles; it returns the value of
\* its first successful attempt, which is its last attempt; when all
\* maxRetries attempts failed with a rate limit error it throws the
\* limit-reached error.
C26_BoundedAttemptsAndSettles ==
    /\ [](retryInvoked <= maxRetries)
    /\ [](\A k \in 1..Len(retryAttempts) :
            retryAttempts[k].kind = "value" =>
                /\ k = Len(retryAttempts)
                /\ retryInvoked = k
                /\ retryResult = Some([kind |-> "return",
                                       value |-> retryAttempts[k].value]))
    /\ []((/\ RetrySettled
           /\ \A k \in 1..Len(retryAttempts) :
                 /\ retryAttempts[k].kind = "error"
                 /\ isRateLimit(retryAttempts[k].value))
             => /\ Len(retryAttempts) = maxRetries
                /\ retryResult = Some([kind |-> "throw", value |-> LimitReached]))
    /\ (RetryRunning ~> RetrySettled)

\* C26 witness: every one of three attempts failed with a rate limit error
\* and the call threw the limit-reached error
C26_Witness ==
    /\ retryPc = "thrown"
    /\ maxRetries = 3
    /\ Len(retryAttempts) = 3
    /\ \A k \in 1..3 : retryAttempts[k].kind = "error"
                        /\ isRateLimit(retryAttempts[k].value)
    /\ retryResult = Some([kind |-> "throw", value |-> LimitReached])

RECURSIVE Pow2(_)
Pow2(k) == IF k = 0 THEN 1 ELSE 2 * Pow2(k - 1)

\* C38: a settled call of withRetry has waited only between attempts, one
\* timeout fewer than it made attempts, and its k-th timeout lasted
\* initialDelay x 2^(k-1).
C38_WaitsOnlyBetweenAttempts ==
    /\ RetrySettled => Len(retryWaits) <= Max(retryInvoked, 1) - 1
    /\ \A k \in 1..Len(retryWaits) :
          retryWaits[k] * Pow2(Len(retryWaits) - k + 1) = retryDelay

(* ----------------------- comic creator: claims -------------------------- *)

\* C33: every panel image displayed was generated for a scene of the
\* current script, the scene of its panel.
C33_PanelsOfCurrentRunOnly ==
    \A i \in 1..Len(panels) :
        panels[i].kind = "image" =>
            /\ script # NULL
            /\ panels[i].image[1].script = script[1].number
            /\ panels[i].image[1].scene = panels[i].sceneNumber

\* C36: panels leave the loading state in scene order, a panel that shows an
\* image shows the image generated for its scene of the current script, and,
\* generation calls settling, no panel stays in the loading state.
C36_PanelsSettleInSceneOrder ==
    /\ [](\A i, j \in 1..Len(panels) :
            (i < j /\ panels[j].kind # "loading") => panels[i].kind # "loading")
    /\ [](\A i \in 1..Len(panels) :
            panels[i].kind = "image" =>
                (script # NULL /\ panels[i].image[1] =
                                    PanelImage(script[1].number, script[1].scenes[i])))
    /\ ((\E i \in 1..Len(panels) : panels[i].kind = "loading")
            ~> (\A i \in 1..Len(panels) : panels[i].kind # "loading"))

(* -------------------- standalone image editor: claims ------------------- *)

\* C34: the edited image shown and offered for download was made from the
\* original that is loaded.
C34_EditedImageOfCurrentOriginal ==
    (~editorLoading /\ editedImage # NULL /\ originalImage # NULL) =>
        editedImage[1].from = originalImage[1]

(* ------------------------- video creator: claims ------------------------ *)

\* C39: generateVideo settles once the service reports the operation done: a
\* failed status poll keeps the generation running with the operation it had,
\* the loop is left only with an operation seen done, and every generation
\* ends with the video or with an error.
C39_PollFailureKeepsPolling ==
    /\ [][pollRejects =>
            /\ operation' = operation
            /\ videoPc' = "wait"
            /\ videoLoading']_vars
    /\ [](videoPc \in {"finish", "fetch"} => operation # NULL /\ operation[1].done)
    /\ [](generatedVideoUrl # NULL =>
            operation # NULL /\ generatedVideoUrl[1] = operation[1].name)
    /\ (videoLoading ~>
            ~videoLoading /\ (generatedVideoUrl # NULL \/ videoError # NoError))

\* a generation with a failed poll has delivered its video
C39_Witness ==
    /\ pollFailures > 0
    /\ ~videoLoading
    /\ generatedVideoUrl # NULL

(* ----------------------- display size: claims --------------------------- *)

\* C31: the display size computed on open is at most 0.8 x the window's
\* width wide and 0.7 x the window's height high, has the native width to
\* height ratio, and is at most the native size.
C31_DisplaySizeBounded ==
    displaySize # NULL =>
        LET size == displaySize[1]
        IN  /\ FracLE(size.width, Frac(8 * windowSize.width, 10))
            /\ FracLE(size.height, Frac(7 * windowSize.height, 10))
            /\ size.width.n * size.height.d * imageSize.height
                   = size.height.n * size.width.d * imageSize.width
            /\ FracLE(size.width, Frac(imageSize.width, 1))
            /\ FracLE(size.height, Frac(imageSize.height, 1))

\* C31 witness: a size computed for an image wider than the width limit
\* that, scaled to the width limit, was still higher than the height limit
C31_Witness ==
    /\ displaySize # NULL
    /\ 10 * imageSize.width > 8 * windowSize.width
    /\ 8 * windowSize.width * imageSize.height * 10
           > 7 * windowSize.height * 10 * imageSize.width
    /\ FracEQ(displaySize[1].height, Frac(7 * windowSize.height, 10))

====
